---- MODULE Spec2Model ----
(***************************************************************************)
(* Model of the document segmentation pipeline of github-rag-chatbot      *)
(* (services/document_processor.py, services/notebook_parser.py).         *)
(*                                                                         *)
(* Text is a sequence of tokens; one token counts as one character.  A    *)
(* token is a word ("import", "def", "os", "x", a path such as "a.py")    *)
(* or a single white-space or punctuation character.  len(), split(),     *)
(* strip(), startswith() and the text splitter work on these sequences    *)
(* the way the code works on characters.                                  *)
(***************************************************************************)
EXTENDS Integers, Sequences, FiniteSets, TLC

\* the three-backtick fence of a markdown code block, one token
FENCE == "fence"

NL  == "\n"
SP  == " "
TAB == "\t"

\* str.strip() removes these
Whitespace == {SP, NL, TAB}

----------------------------------------------------------------------------
(* Generic sequence helpers (Python str / list primitives)                 *)

RECURSIVE Concat(_)
\* "".join(list)
Concat(ss) == IF ss = <<>> THEN <<>> ELSE Head(ss) \o Concat(Tail(ss))

RECURSIVE JoinWith(_, _)
\* sep.join(list)
JoinWith(ss, sep) ==
    IF ss = <<>> THEN <<>>
    ELSE IF Len(ss) = 1 THEN ss[1]
    ELSE ss[1] \o sep \o JoinWith(Tail(ss), sep)

\* text[a:b] with 1-indexed inclusive bounds, empty when a > b
Slice(s, a, b) == IF a > b THEN <<>> ELSE SubSeq(s, a, b)

\* text.startswith(p)
StartsWith(s, p) == Len(s) >= Len(p) /\ SubSeq(s, 1, Len(p)) = p

\* position i of text begins an occurrence of the non-empty pattern p
MatchAt(s, p, i) == i + Len(p) - 1 <= Len(s) /\ SubSeq(s, i, i + Len(p) - 1) = p

RECURSIVE LStrip(_)
LStrip(s) == IF s # <<>> /\ Head(s) \in Whitespace THEN LStrip(Tail(s)) ELSE s

RECURSIVE RStrip(_)
RStrip(s) ==
    IF s # <<>> /\ s[Len(s)] \in Whitespace THEN RStrip(SubSeq(s, 1, Len(s) - 1)) ELSE s

\* str.strip()
Strip(s) == RStrip(LStrip(s))

RECURSIVE SplitOn(_, _)
\* text.split(sep) for a non-empty separator: the pieces between the
\* non-overlapping occurrences of sep, found left to right
SplitOn(s, sep) ==
    LET hits == {i \in 1..Len(s) : MatchAt(s, sep, i)}
    IN IF hits = {} THEN <<s>>
       ELSE LET i == CHOOSE h \in hits : \A g \in hits : h <= g
            IN <<SubSeq(s, 1, i - 1)>> \o SplitOn(SubSeq(s, i + Len(sep), Len(s)), sep)

\* code.split('\n')
SplitLines(s) == SplitOn(s, <<NL>>)

\* dict.get(key, default)
Get(d, k, default) == IF k \in DOMAIN d THEN d[k] ELSE default

\* {**d, **e}: e wins on shared keys
Merge(d, e) == e @@ d

----------------------------------------------------------------------------
(* _extract_imports                                                        *)

RECURSIVE ExtractImportLinesNoStop(_)
\* ExtractImportLines with the fault of not stopping at the first other
\* line
ExtractImportLinesNoStop(lines) ==
    IF lines = <<>> THEN <<>>
    ELSE LET line == Head(lines)
             stripped == Strip(line)
         IN IF StartsWith(stripped, <<"import", SP>>) \/ StartsWith(stripped, <<"from", SP>>)
            THEN <<line>> \o ExtractImportLinesNoStop(Tail(lines))
            ELSE ExtractImportLinesNoStop(Tail(lines))

RECURSIVE ExtractImportLines(_)
\* the loop of _extract_imports over the lines: collect import lines, skip
\* blank and comment lines, stop at the first other line
ExtractImportLines(lines) ==
    IF lines = <<>> THEN <<>>
    ELSE LET line == Head(lines)
             stripped == Strip(line)
         IN IF StartsWith(stripped, <<"import", SP>>) \/ StartsWith(stripped, <<"from", SP>>)
            THEN <<line>> \o ExtractImportLines(Tail(lines))
            ELSE IF stripped # <<>> /\ ~StartsWith(stripped, <<"#">>)
                 THEN <<>>
                 ELSE ExtractImportLines(Tail(lines))

_extract_imports(code) == JoinWith(ExtractImportLines(SplitLines(code)), <<NL>>)

----------------------------------------------------------------------------
(* ast.parse and ast.walk on the token language                            *)
(*                                                                         *)
(* A line is: blank, a comment ("#" ...), a definition header              *)
(* ("def"|"class", SP, name) optionally followed on the same line by its  *)
(* body (SP, statement), or a simple statement.  A header without an      *)
(* inline body needs a deeper-indented block.  The token "!" is text that *)
(* no Python grammar rule accepts.                                         *)

Keywords == {"def", "class", "import", "from"}

\* number of leading white-space tokens of a line
Indent(line) == Len(line) - Len(LStrip(line))

IsBlankLine(line) == Strip(line) = <<>>

IsCommentLine(line) == StartsWith(Strip(line), <<"#">>)

\* lines the tokenizer hands to the grammar
IsCodeLine(line) == ~IsBlankLine(line) /\ ~IsCommentLine(line)

IsHeaderLine(line) ==
    LET b == Strip(line)
    IN Len(b) >= 3 /\ b[1] \in {"def", "class"} /\ b[2] = SP
       /\ b[3] \notin Keywords \cup Whitespace \cup {"!", "#"}

\* a header whose body follows on the same line
IsInlineHeader(line) == IsHeaderLine(line) /\ Len(Strip(line)) > 3

\* the line cannot be derived by the grammar
IsBadLine(line) ==
    LET b == Strip(line)
    IN \/ \E i \in 1..Len(b) : b[i] = "!"
       \/ b[1] \in {"def", "class"} /\ ~IsHeaderLine(line)
       \/ b[1] \in {"import", "from"} /\ ~(Len(b) >= 3 /\ b[2] = SP)

\* parser state before the first line
ParseStart == [ok |-> TRUE, stack |-> <<0>>, expect |-> FALSE,
               open |-> <<>>, done |-> {}, lastCode |-> 0]

RECURSIVE PopTo(_, _)
\* dedent: drop the indentation levels deeper than k
PopTo(stack, k) ==
    IF Len(stack) > 1 /\ stack[Len(stack)] > k
    THEN PopTo(SubSeq(stack, 1, Len(stack) - 1), k)
    ELSE stack

\* the open definitions that a code line at indentation k ends, as finished
\* nodes ending at the last code line seen
ClosedBy(st, k) ==
    { [name |-> st.open[i].name, type |-> st.open[i].type,
       lineno |-> st.open[i].lineno, end_lineno |-> st.lastCode,
       depth |-> st.open[i].depth] :
      i \in { j \in 1..Len(st.open) : st.open[j].indent >= k } }

StillOpen(st, k) == SelectSeq(st.open, LAMBDA d : d.indent < k)

\* one code line (number j) through the parser
ParseLine(st, line, j) ==
    LET k    == Indent(line)
        b    == Strip(line)
        top  == st.stack[Len(st.stack)]
        stk  == IF st.expect THEN Append(st.stack, k) ELSE PopTo(st.stack, k)
        bad  == \/ IsBadLine(line)
                \/ st.expect /\ k <= top
                \/ ~st.expect /\ k > top
                \/ ~st.expect /\ stk[Len(stk)] # k
        keep == IF st.expect THEN st.open ELSE StillOpen(st, k)
        shut == IF st.expect THEN {} ELSE ClosedBy(st, k)
        node == [name |-> b[3],
                 type |-> IF b[1] = "def" THEN "function" ELSE "class",
                 lineno |-> j, indent |-> k, depth |-> Len(keep) + 1]
    IN IF bad THEN [st EXCEPT !.ok = FALSE]
       ELSE IF ~IsHeaderLine(line)
       THEN [st EXCEPT !.stack = stk, !.expect = FALSE, !.open = keep,
                       !.done = st.done \cup shut, !.lastCode = j]
       ELSE IF IsInlineHeader(line)
       THEN [st EXCEPT !.stack = stk, !.expect = FALSE, !.open = keep,
                       !.done = st.done \cup shut \cup
                                { [name |-> node.name, type |-> node.type,
                                   lineno |-> j, end_lineno |-> j,
                                   depth |-> node.depth] },
                       !.lastCode = j]
       ELSE [st EXCEPT !.stack = stk, !.expect = TRUE,
                       !.open = Append(keep, node),
                       !.done = st.done \cup shut, !.lastCode = j]

RECURSIVE ParseFrom(_, _, _)
\* the parser over lines j..Len(lines)
ParseFrom(st, lines, j) ==
    IF ~st.ok \/ j > Len(lines) THEN st
    ELSE IF IsCodeLine(lines[j])
         THEN ParseFrom(ParseLine(st, lines[j], j), lines, j + 1)
         ELSE ParseFrom(st, lines, j + 1)

\* ast.parse(text): [ok |-> FALSE] stands for SyntaxError; otherwise the
\* definition nodes of the tree (FunctionDef/AsyncFunctionDef as "function",
\* ClassDef as "class") with their position information
AstParse(text) ==
    LET lines == SplitLines(text)
        st    == ParseFrom(ParseStart, lines, 1)
    IN IF ~st.ok \/ st.expect THEN [ok |-> FALSE, nodes |-> {}]
       ELSE [ok |-> TRUE, nodes |-> st.done \cup ClosedBy(st, 0)]

\* ast.walk is breadth-first: a node precedes every deeper node, and nodes
\* of one depth come in source order
WalkBefore(m, n) ==
    m.depth < n.depth \/ (m.depth = n.depth /\ m.lineno < n.lineno)

RECURSIVE WalkOrderTopLevelOnly(_)
\* WalkOrder with the fault of visiting the top-level definitions only
WalkOrderTopLevelOnly(nodes) ==
    LET top == {n \in nodes : n.depth = 1}
    IN IF top = {} THEN <<>>
       ELSE LET first == CHOOSE m \in top : \A n \in top \ {m} : m.lineno < n.lineno
            IN <<first>> \o WalkOrderTopLevelOnly(top \ {first})

RECURSIVE WalkOrder(_)
WalkOrder(nodes) ==
    IF nodes = {} THEN <<>>
    ELSE LET first == CHOOSE m \in nodes : \A n \in nodes \ {m} : WalkBefore(m, n)
         IN <<first>> \o WalkOrder(nodes \ {first})

----------------------------------------------------------------------------
(* Documents and _split_python_with_ast                                    *)

\* langchain Document(page_content, metadata)
Document(content, metadata) == [page_content |-> content, metadata |-> metadata]

\* f"# Imports from {source}\n"
ImportsHeaderLine(source) == <<"#", SP, "Imports", SP, "from", SP, source, NL>>

\* f"# Imports from {source}\n{imports}\n\n{code}"
WithImports(source, imports, code) ==
    ImportsHeaderLine(source) \o imports \o <<NL, NL>> \o code

\* WithinStructuralLimit with the fault of leaving out the factor 1.5
WithinStructuralLimitNoOverflow(code, chunk_size) == Len(code) <= chunk_size

\* len(code) <= chunk_size * 1.5
WithinStructuralLimit(code, chunk_size) == 2 * Len(code) <= 3 * chunk_size

\* AstNodeMetadata with the fault of recording the 0-indexed slice start
\* as start_line
AstNodeMetadataZeroIndexed(document, node) ==
    Merge(document.metadata,
          [chunk_type |-> "ast_node",
           node_type  |-> node.type,
           node_name  |-> node.name,
           start_line |-> node.lineno - 1,
           end_line   |-> node.end_lineno,
           has_imports |-> TRUE])

\* the metadata the structural splitter gives the chunk of one node
AstNodeMetadata(document, node) ==
    Merge(document.metadata,
          [chunk_type |-> "ast_node",
           node_type  |-> node.type,
           node_name  |-> node.name,
           start_line |-> node.lineno,
           end_line   |-> node.end_lineno,
           has_imports |-> TRUE])

\* the source text of one node: lines[start_line:end_line] joined, with the
\* file's imports on top when there are any
AstNodeCode(document, node) ==
    LET lines   == SplitLines(document.page_content)
        imports == _extract_imports(document.page_content)
        code    == JoinWith(Slice(lines, node.lineno, node.end_lineno), <<NL>>)
    IN IF imports # <<>>
       THEN WithImports(document.metadata["source"], imports, code)
       ELSE code

\* AstNodeChunks with the fault of not checking the length of the chunk
RECURSIVE AstNodeChunksUnchecked(_, _, _)
AstNodeChunksUnchecked(document, nodes, chunk_size) ==
    IF nodes = <<>> THEN <<>>
    ELSE <<Document(AstNodeCode(document, Head(nodes)),
                    AstNodeMetadata(document, Head(nodes)))>>
         \o AstNodeChunksUnchecked(document, Tail(nodes), chunk_size)

RECURSIVE AstNodeChunks(_, _, _)
\* the loop over ast.walk(tree): one chunk per definition node, kept only
\* when it is within the size limit
AstNodeChunks(document, nodes, chunk_size) ==
    IF nodes = <<>> THEN <<>>
    ELSE LET code == AstNodeCode(document, Head(nodes))
             rest == AstNodeChunks(document, Tail(nodes), chunk_size)
         IN IF WithinStructuralLimit(code, chunk_size)
            THEN <<Document(code, AstNodeMetadata(document, Head(nodes)))>> \o rest
            ELSE rest

_split_python_with_ast(document, chunk_size) ==
    LET tree == AstParse(document.page_content)
    IN IF ~tree.ok THEN <<>>
       ELSE AstNodeChunks(document, WalkOrder(tree.nodes), chunk_size)

----------------------------------------------------------------------------
(* RecursiveCharacterTextSplitter (langchain), as the pipeline configures  *)
(* it: keep_separator = True, strip_whitespace = True, length = len        *)

\* some position of text begins an occurrence of sep (re.search)
Contains(text, sep) == \E i \in 1..Len(text) : MatchAt(text, sep, i)

\* SplitKeepSeparator with the fault of dropping the separator from the
\* pieces
SplitDropSeparator(text, sep) ==
    LET pieces == IF sep = <<>> THEN [i \in 1..Len(text) |-> <<text[i]>>]
                  ELSE SplitOn(text, sep)
    IN SelectSeq(pieces, LAMBDA x : x # <<>>)

\* _split_text_with_regex with keep_separator: the separator stays at the
\* start of the piece that follows it; empty pieces are dropped
SplitKeepSeparator(text, sep) ==
    LET pieces == IF sep = <<>> THEN [i \in 1..Len(text) |-> <<text[i]>>]
                  ELSE SplitOn(text, sep)
        kept   == [i \in 1..Len(pieces) |->
                     IF sep = <<>> \/ i = 1 THEN pieces[i] ELSE sep \o pieces[i]]
    IN SelectSeq(kept, LAMBDA x : x # <<>>)

\* _join_docs with the empty join separator: <<>> stands for None
JoinDocs(docs) == Strip(Concat(docs))

RECURSIVE TotalLen(_)
TotalLen(ds) == IF ds = <<>> THEN 0 ELSE Len(Head(ds)) + TotalLen(Tail(ds))

RECURSIVE DropForOverlap(_, _, _, _)
\* the while loop of _merge_splits: drop pieces from the front of the
\* current chunk until what is left fits the overlap and leaves room for
\* the next piece of length n
DropForOverlap(current, n, chunk_size, chunk_overlap) ==
    LET total == TotalLen(current)
    IN IF total > chunk_overlap \/ (total + n > chunk_size /\ total > 0)
       THEN DropForOverlap(Tail(current), n, chunk_size, chunk_overlap)
       ELSE current

RECURSIVE MergeFrom(_, _, _, _)
\* the for loop of _merge_splits from the state (current chunk) on
MergeFrom(splits, current, chunk_size, chunk_overlap) ==
    IF splits = <<>>
    THEN IF JoinDocs(current) # <<>> THEN <<JoinDocs(current)>> ELSE <<>>
    ELSE LET d == Head(splits)
         IN IF TotalLen(current) + Len(d) > chunk_size /\ current # <<>>
            THEN (IF JoinDocs(current) # <<>> THEN <<JoinDocs(current)>> ELSE <<>>)
                 \o MergeFrom(Tail(splits),
                              Append(DropForOverlap(current, Len(d), chunk_size, chunk_overlap), d),
                              chunk_size, chunk_overlap)
            ELSE MergeFrom(Tail(splits), Append(current, d), chunk_size, chunk_overlap)

_merge_splits(splits, chunk_size, chunk_overlap) ==
    MergeFrom(splits, <<>>, chunk_size, chunk_overlap)

RECURSIVE FirstPresent(_, _)
\* index of the first separator that is the empty string or occurs in the
\* text; 0 when there is none
FirstPresent(text, separators) ==
    IF separators = <<>> THEN 0
    ELSE IF Head(separators) = <<>> \/ Contains(text, Head(separators)) THEN 1
    ELSE LET r == FirstPresent(text, Tail(separators))
         IN IF r = 0 THEN 0 ELSE r + 1

RECURSIVE _split_text(_, _, _, _)
RECURSIVE SplitPieces(_, _, _, _, _)
\* the loop of _split_text over the pieces: short pieces are collected in
\* good and merged, a long piece is split with the remaining separators or,
\* when none is left, becomes a chunk as it is
SplitPieces(pieces, good, new_separators, chunk_size, chunk_overlap) ==
    IF pieces = <<>>
    THEN IF good # <<>> THEN _merge_splits(good, chunk_size, chunk_overlap) ELSE <<>>
    ELSE LET p == Head(pieces)
         IN IF Len(p) < chunk_size
            THEN SplitPieces(Tail(pieces), Append(good, p), new_separators,
                             chunk_size, chunk_overlap)
            ELSE (IF good # <<>> THEN _merge_splits(good, chunk_size, chunk_overlap) ELSE <<>>)
                 \o (IF new_separators = <<>> THEN <<p>>
                     ELSE _split_text(p, new_separators, chunk_size, chunk_overlap))
                 \o SplitPieces(Tail(pieces), <<>>, new_separators,
                                chunk_size, chunk_overlap)

_split_text(text, separators, chunk_size, chunk_overlap) ==
    LET i == FirstPresent(text, separators)
        separator == IF i = 0 THEN separators[Len(separators)] ELSE separators[i]
        new_separators == IF i = 0 \/ separator = <<>> THEN <<>>
                          ELSE SubSeq(separators, i + 1, Len(separators))
    IN SplitPieces(SplitKeepSeparator(text, separator), <<>>, new_separators,
                   chunk_size, chunk_overlap)

\* separators=["\n\n", "\n", " ", ""], the default list
DefaultSeparators == << <<NL, NL>>, <<NL>>, <<SP>>, <<>> >>

\* RecursiveCharacterTextSplitter.get_separators_for_language(PYTHON)
PythonSeparators ==
    << <<NL, "class", SP>>, <<NL, "def", SP>>, <<NL, TAB, "def", SP>>,
       <<NL, NL>>, <<NL>>, <<SP>>, <<>> >>

\* get_separators_for_language(MARKDOWN): a heading, the end of a code
\* block, then the default list (the horizontal-rule patterns need tokens
\* the modelled texts never contain)
MarkdownSeparators ==
    << <<NL, "#", SP>>, <<FENCE, NL>>, <<NL, NL>>, <<NL>>, <<SP>>, <<>> >>

\* os.path.splitext(source)[1].lower() of the paths of the model
Ext(source) ==
    CASE source \in {"a.py", "b.py", "U.PY"} -> ".py"
      [] source \in {"n.ipynb", "m.ipynb"}   -> ".ipynb"
      [] source = "r.md"                     -> ".md"
      [] OTHER                               -> ".txt"

\* source.endswith('.py')
EndsWithPy(source) == source \in {"a.py", "b.py"}

\* language_map.get(ext) turned into the splitter's separator list; the
\* extensions of the map that no modelled path has are left out
SeparatorsFor(ext) ==
    CASE ext = ".py" -> PythonSeparators
      [] ext = ".md" -> MarkdownSeparators
      [] OTHER       -> DefaultSeparators

\* SplitDocument with the fault of handing the document on unsplit
SplitDocumentUnsplit(doc, separators, chunk_size, chunk_overlap) ==
    IF Strip(doc.page_content) = <<>> THEN <<>>
    ELSE <<Document(Strip(doc.page_content), doc.metadata)>>

\* TextSplitter.split_documents([doc]): one Document per chunk of text, each
\* with a deep copy of the metadata
SplitDocument(doc, separators, chunk_size, chunk_overlap) ==
    LET texts == _split_text(doc.page_content, separators, chunk_size, chunk_overlap)
    IN [i \in 1..Len(texts) |-> Document(texts[i], doc.metadata)]

RECURSIVE _language_aware_split(_, _, _)
_language_aware_split(documents, chunk_size, chunk_overlap) ==
    IF documents = <<>> THEN <<>>
    ELSE LET doc == Head(documents)
             ext == Ext(Get(doc.metadata, "source", ""))
         IN SplitDocument(doc, SeparatorsFor(ext), chunk_size, chunk_overlap)
            \o _language_aware_split(Tail(documents), chunk_size, chunk_overlap)

----------------------------------------------------------------------------
(* JSON documents and parse_notebook                                       *)
(*                                                                         *)
(* A decoded JSON value is a tagged record: [t |-> "str", s |-> text],     *)
(* [t |-> "num", n |-> token], [t |-> "null"], [t |-> "nan"],              *)
(* [t |-> "list", items |-> <<values>>], and                               *)
(* [t |-> "obj", f |-> <<pairs <<key, value>> >>].                         *)

QUOTE == "\""

JStr(text)   == [t |-> "str", s |-> text]
JNum(tok)    == [t |-> "num", n |-> tok]
JNull        == [t |-> "null"]
JNaN         == [t |-> "nan"]
JList(items) == [t |-> "list", items |-> items]
JObj(pairs)  == [t |-> "obj", f |-> pairs]

\* a string as JSON writes it: a line break becomes the escape \n
JsonEscape(text) == [i \in 1..Len(text) |-> IF text[i] = NL THEN "\\n" ELSE text[i]]

RECURSIVE JsonDumps(_)
\* the JSON text of a value, as json.dumps lays it out
JsonDumps(v) ==
    CASE v.t = "str"  -> <<QUOTE>> \o JsonEscape(v.s) \o <<QUOTE>>
      [] v.t = "num"  -> <<v.n>>
      [] v.t = "null" -> <<"null">>
      [] v.t = "nan"  -> <<"NaN">>
      [] v.t = "list" ->
           <<"[">> \o JoinWith([i \in 1..Len(v.items) |-> JsonDumps(v.items[i])],
                                   <<",", SP>>)
                   \o <<"]">>
      [] v.t = "obj"  ->
           <<"{">> \o JoinWith([i \in 1..Len(v.f) |->
                                  <<QUOTE, v.f[i][1], QUOTE, ":", SP>>
                                  \o JsonDumps(v.f[i][2])],
                               <<",", SP>>)
                   \o <<"}">>

\* the cells the modelled notebooks are built from
CellMarkdown == JObj(<< <<"cell_type", JStr(<<"markdown">>)>>,
                        <<"source", JStr(<<"t">>)>> >>)
CellCode     == JObj(<< <<"cell_type", JStr(<<"code">>)>>,
                        <<"source", JList(<< JStr(<<"x", NL>>), JStr(<<"y">>) >>)>>,
                        <<"outputs", JList(<< JStr(<<"o">>) >>)>> >>)
CellRaw      == JObj(<< <<"cell_type", JStr(<<"raw">>)>>,
                        <<"source", JStr(<<"z">>)>> >>)
CellNoSource == JObj(<< <<"cell_type", JStr(<<"code">>)>> >>)
CellNumSource == JObj(<< <<"cell_type", JStr(<<"code">>)>>,
                         <<"source", JNum("5")>> >>)
CellBadJoin  == JObj(<< <<"cell_type", JStr(<<"raw">>)>>,
                        <<"source", JList(<< JNum("1") >>)>> >>)

\* the JSON documents of the model: what json.loads can return for the
\* notebook files it is given
JsonValues ==
    { JObj(<< <<"cells", JList(<<CellMarkdown, CellCode, CellRaw>>)>>,
              <<"metadata", JObj(<<>>)>> >>),
      JObj(<< <<"cells", JList(<<CellCode, CellMarkdown>>)>> >>),
      JObj(<< <<"cells", JList(<<CellNoSource>>)>> >>),
      JObj(<< <<"cells", JList(<<CellNumSource>>)>> >>),
      JObj(<< <<"cells", JList(<<CellMarkdown, CellBadJoin>>)>> >>),
      JObj(<< <<"cells", JList(<<CellRaw>>)>> >>),
      JObj(<< <<"cells", JList(<<>>)>> >>),
      JObj(<< <<"cells", JList(<< JNum("1") >>)>> >>),
      JObj(<< <<"cells", JNum("5")>> >>),
      JObj(<< <<"cells", JStr(<<>>)>> >>),
      JObj(<<>>),
      JList(<<>>),
      JNum("5"),
      JNaN }

\* json.loads(text): the value whose JSON text this is; [t |-> "error"]
\* stands for JSONDecodeError
JsonLoads(text) ==
    IF \E v \in JsonValues : JsonDumps(v) = text
    THEN CHOOSE v \in JsonValues : JsonDumps(v) = text
    ELSE [t |-> "error"]

RECURSIVE PairsGet(_, _, _)
\* dict.get(key, default) on the pairs of an object: the last pair of a
\* repeated key wins
PairsGet(pairs, key, default) ==
    IF pairs = <<>> THEN default
    ELSE IF pairs[Len(pairs)][1] = key THEN pairs[Len(pairs)][2]
    ELSE PairsGet(SubSeq(pairs, 1, Len(pairs) - 1), key, default)

\* f"{value}" of a cell's source that is not a list
FormatValue(v) ==
    CASE v.t = "str"  -> v.s
      [] v.t = "num"  -> <<v.n>>
      [] v.t = "null" -> <<"None">>
      [] v.t = "nan"  -> <<"nan">>
      [] OTHER        -> JsonDumps(v)

\* iterating `cells`: the items of a list, the characters of a string, the
\* keys of an object; anything else is not iterable
IsIterable(v) == v.t \in {"list", "str", "obj"}

IterItems(v) ==
    CASE v.t = "list" -> v.items
      [] v.t = "str"  -> [i \in 1..Len(v.s) |-> JStr(<<v.s[i]>>)]
      [] v.t = "obj"  -> [i \in 1..Len(v.f) |-> JStr(<<v.f[i][1]>>)]

\* the body of the loop for one cell: the exception it raises ("" when
\* none) and the block it appends (<<>> when none)
CellStep(cell) ==
    IF cell.t # "obj" THEN [error |-> "AttributeError", block |-> <<>>]
    ELSE LET cell_type == PairsGet(cell.f, "cell_type", JStr(<<>>))
             source    == PairsGet(cell.f, "source", JList(<<>>))
             joinable  == \A i \in 1..Len(source.items) : source.items[i].t = "str"
             cell_content ==
                 IF source.t = "list"
                 THEN Concat([i \in 1..Len(source.items) |-> source.items[i].s])
                 ELSE FormatValue(source)
         IN IF source.t = "list" /\ ~joinable
            THEN [error |-> "TypeError", block |-> <<>>]
            ELSE IF cell_type = JStr(<<"markdown">>)
            THEN [error |-> "",
                  block |-> << <<"#", SP, "Markdown", SP, "Cell", NL>>
                               \o cell_content \o <<NL>> >>]
            ELSE IF cell_type = JStr(<<"code">>)
            THEN [error |-> "",
                  block |-> << <<"#", SP, "Code", SP, "Cell", NL, FENCE, "python", NL>>
                               \o cell_content \o <<NL, FENCE, NL>> >>]
            ELSE [error |-> "", block |-> <<>>]

RECURSIVE CellsLoopNewestFirst(_, _)
\* CellsLoop with the fault of putting each new block before the collected
\* ones
CellsLoopNewestFirst(cells, extracted_content) ==
    IF cells = <<>> THEN [error |-> "", text |-> JoinWith(extracted_content, <<NL>>)]
    ELSE LET r == CellStep(Head(cells))
         IN IF r.error # "" THEN [error |-> r.error, text |-> <<>>]
            ELSE CellsLoopNewestFirst(Tail(cells), r.block \o extracted_content)

RECURSIVE CellsLoop(_, _)
\* the for loop over the cells from the collected blocks on
CellsLoop(cells, extracted_content) ==
    IF cells = <<>> THEN [error |-> "", text |-> JoinWith(extracted_content, <<NL>>)]
    ELSE LET r == CellStep(Head(cells))
         IN IF r.error # "" THEN [error |-> r.error, text |-> <<>>]
            ELSE CellsLoop(Tail(cells), extracted_content \o r.block)

\* CaughtByParser with the fault of an except clause for KeyError only
CaughtOnlyKeyError == {"KeyError"}

\* the exceptions the except clause of parse_notebook catches
CaughtByParser == {"JSONDecodeError", "KeyError"}

\* parse_notebook(content): the text it returns, or the exception that
\* leaves it
parse_notebook(content) ==
    LET notebook == JsonLoads(content)
        cells    == PairsGet(notebook.f, "cells", JList(<<>>))
        r == IF notebook.t = "error" THEN [error |-> "JSONDecodeError", text |-> <<>>]
             ELSE IF notebook.t # "obj" THEN [error |-> "AttributeError", text |-> <<>>]
             ELSE IF ~IsIterable(cells) THEN [error |-> "TypeError", text |-> <<>>]
             ELSE CellsLoop(IterItems(cells), <<>>)
    IN IF r.error = "" THEN [raised |-> "", text |-> r.text]
       ELSE IF r.error \in CaughtByParser THEN [raised |-> "", text |-> content]
       ELSE [raised |-> r.error, text |-> <<>>]

\* is_notebook_file(filename): filename.lower().endswith(".ipynb")
is_notebook_file(source) == Ext(source) = ".ipynb"

----------------------------------------------------------------------------
(* Import enrichment                                                       *)

RECURSIVE _build_import_map(_)
\* source -> imports, for the .py documents that have imports; a later
\* document of the same source overwrites an earlier one
_build_import_map(documents) ==
    IF documents = <<>> THEN <<>>
    ELSE LET doc     == documents[Len(documents)]
             before  == _build_import_map(SubSeq(documents, 1, Len(documents) - 1))
             source  == Get(doc.metadata, "source", "")
             imports == _extract_imports(doc.page_content)
         IN IF EndsWithPy(source) /\ imports # <<>>
            THEN (source :> imports) @@ before
            ELSE before

\* EnrichChunk with the fault of leaving out the has_imports guard
EnrichChunkUnguarded(chunk, import_map) ==
    LET source == Get(chunk.metadata, "source", "")
    IN IF source \in DOMAIN import_map /\ import_map[source] # <<>>
       THEN Document(ImportsHeaderLine(source) \o import_map[source]
                         \o <<NL, NL>> \o chunk.page_content,
                     Merge(chunk.metadata, [has_imports |-> TRUE]))
       ELSE chunk

\* the body of the loop of _enrich_with_imports for one chunk
EnrichChunk(chunk, import_map) ==
    LET source == Get(chunk.metadata, "source", "")
    IN IF Get(chunk.metadata, "has_imports", FALSE) THEN chunk
       ELSE IF source \in DOMAIN import_map /\ import_map[source] # <<>>
       THEN Document(ImportsHeaderLine(source) \o import_map[source]
                         \o <<NL, NL>> \o chunk.page_content,
                     Merge(chunk.metadata, [has_imports |-> TRUE]))
       ELSE chunk

_enrich_with_imports(chunks, import_map) ==
    [i \in 1..Len(chunks) |-> EnrichChunk(chunks[i], import_map)]

----------------------------------------------------------------------------
(* The steps of _hybrid_split for one document                             *)

\* Preprocess with the fault of not copying the metadata of the notebook
\* into the new document
PreprocessDropsMetadata(document) ==
    LET source == Get(document.metadata, "source", "")
    IN IF Ext(source) = ".ipynb" /\ is_notebook_file(source)
       THEN LET r == parse_notebook(document.page_content)
            IN [raised |-> r.raised,
                doc |-> Document(r.text, [preprocessed |-> "notebook"])]
       ELSE [raised |-> "", doc |-> document]

\* lines 292-299: a notebook is replaced by its parsed text; the result is
\* the document the rest of the iteration works on, or the exception
\* parse_notebook lets out
Preprocess(document) ==
    LET source == Get(document.metadata, "source", "")
    IN IF Ext(source) = ".ipynb" /\ is_notebook_file(source)
       THEN LET r == parse_notebook(document.page_content)
            IN [raised |-> r.raised,
                doc |-> Document(r.text,
                                 Merge(document.metadata, [preprocessed |-> "notebook"]))]
       ELSE [raised |-> "", doc |-> document]

\* oversized = [c for c in ast_chunks if len(c.page_content) > chunk_size * 1.5]
Oversized(chunks, chunk_size) ==
    SelectSeq(chunks, LAMBDA c : 2 * Len(c.page_content) > 3 * chunk_size)

\* StructuralAccepted with the fault of leaving out the `if ast_chunks:`
\* test
StructuralAcceptedNoEmptyCheck(chunks, chunk_size) ==
    Oversized(chunks, chunk_size) = <<>>

\* lines 305-309: the structural chunks are taken as they are
StructuralAccepted(chunks, chunk_size) ==
    chunks # <<>> /\ Oversized(chunks, chunk_size) = <<>>

\* _ast_only_split with the fault of falling back to the language-aware
\* splitter, at overlap 0, for a file without structural chunks
RECURSIVE _ast_only_split_with_fallback(_, _)
_ast_only_split_with_fallback(documents, chunk_size) ==
    IF documents = <<>> THEN <<>>
    ELSE (IF /\ EndsWithPy(Get(Head(documents).metadata, "source", ""))
             /\ _split_python_with_ast(Head(documents), chunk_size) # <<>>
          THEN _split_python_with_ast(Head(documents), chunk_size)
          ELSE _language_aware_split(<<Head(documents)>>, chunk_size, 0))
         \o _ast_only_split_with_fallback(Tail(documents), chunk_size)

\* the other strategies of process_documents
RECURSIVE _ast_only_split(_, _)
_ast_only_split(documents, chunk_size) ==
    IF documents = <<>> THEN <<>>
    ELSE (IF EndsWithPy(Get(Head(documents).metadata, "source", ""))
          THEN _split_python_with_ast(Head(documents), chunk_size)
          ELSE <<>>)
         \o _ast_only_split(Tail(documents), chunk_size)

RECURSIVE _basic_split(_, _, _)
_basic_split(documents, chunk_size, chunk_overlap) ==
    IF documents = <<>> THEN <<>>
    ELSE SplitDocument(Head(documents), DefaultSeparators, chunk_size, chunk_overlap)
         \o _basic_split(Tail(documents), chunk_size, chunk_overlap)

----------------------------------------------------------------------------
(* The input files of the model                                            *)

\* n times the statement " x"
RECURSIVE Stmts(_)
Stmts(n) == IF n = 0 THEN <<>> ELSE <<SP, "x">> \o Stmts(n - 1)

\* import os / def add / def sub, the math_utils.py example
PyMath == <<"import", SP, "os", NL, NL,
            "def", SP, "add", NL, SP, "p", NL, NL,
            "def", SP, "sub", NL, SP, "p", NL>>

\* the same file with the header of add broken
PyBroken == <<"import", SP, "os", NL, NL,
              "def", SP, "add", "!", NL, SP, "p", NL>>

\* imports and statements, no definition
PyNoDefs == <<"import", SP, "os", NL, "x", SP, "x">>

\* definitions without any import
PyNoImports == <<"def", SP, "f", SP, "x", NL, "#", SP, "c", NL, "def", SP, "g", SP, "x">>

\* a small definition and one no chunk size of the model admits
PyMixed == <<"def", SP, "f", SP, "x", NL, "def", SP, "g">> \o Stmts(17)

\* only a definition no chunk size of the model admits
PyBig == <<"import", SP, "os", NL, "def", SP, "g">> \o Stmts(17)

\* a class with two methods, then a function
PyNested == <<"class", SP, "K", NL,
              SP, "def", SP, "m", NL, SP, SP, "x", NL,
              SP, "def", SP, "n", SP, "x", NL,
              "def", SP, "g", SP, "x">>

\* a statement before the import
PyLateImport == <<"x", NL, "import", SP, "os", NL, "def", SP, "f", SP, "x">>

PyEmpty == <<>>

PyBlank == <<NL, SP, NL>>

PythonTexts == {PyMath, PyBroken, PyNoDefs, PyNoImports, PyMixed, PyBig,
                PyNested, PyLateImport, PyEmpty, PyBlank}

\* a markdown file: two headings with text
MdReadme == <<"#", SP, "T", NL, "w", SP, "w", SP, "w", NL, NL, "#", SP, "U", NL,
              "w", SP, "w", SP, "w", SP, "w", SP, "w", SP, "w", SP, "w", SP, "w">>

\* plain text that is not JSON
PlainText == <<"w", SP, "w", NL, "w", SP, "w", SP, "w", SP, "w", SP, "w", SP, "w",
               SP, "w", SP, "w", NL>>

\* the contents of notebook files: the JSON documents, text that is not
\* JSON, and nothing
NotebookTexts == {JsonDumps(v) : v \in JsonValues} \cup {PlainText, <<"{", "cells">>, <<>>}

\* what GitHubLoader._build_metadata gives a document (the keys the
\* pipeline does not read are represented by type)
FileMetadata(source) == [source |-> source, type |-> "code"]

\* the documents the loader can hand to the pipeline
Files ==
    {Document(c, FileMetadata("a.py")) : c \in PythonTexts}
    \cup {Document(c, FileMetadata("b.py")) : c \in {PyMath, PyBroken}}
    \cup {Document(PyMath, FileMetadata("U.PY"))}
    \cup {Document(c, FileMetadata("n.ipynb")) : c \in NotebookTexts}
    \cup {Document(MdReadme, FileMetadata("r.md"))}
    \cup {Document(PlainText, FileMetadata("t.txt"))}

\* longest input list
MaxFiles == 2

\* the paths of a repository tree are distinct
DistinctSources(docs) ==
    \A i, j \in 1..Len(docs) :
        i # j => docs[i].metadata["source"] # docs[j].metadata["source"]

InputLists ==
    {docs \in UNION {[1..n -> Files] : n \in 0..MaxFiles} : DistinctSources(docs)}

\* chunk_size and chunk_overlap of the run (chunk_overlap < chunk_size)
ChunkSizes == {14, 22}
Overlaps   == {0, 4}

Strategies == {"hybrid", "ast", "language", "basic"}

----------------------------------------------------------------------------
(* State                                                                   *)

VARIABLES
    documents,      \* the argument of process_documents
    chunk_size,
    chunk_overlap,
    strategy,
    pc,             \* position in process_documents / _hybrid_split
    idx,            \* index of the document of the current loop iteration
    doc,            \* the loop variable, after preprocessing
    ast_chunks,     \* result of the structural attempt of this iteration
    all_chunks,
    import_map,
    ast_success,
    ast_failed,
    fallback_used,
    route,          \* per document: the branch its iteration took
    raised,         \* exception that left process_documents ("" when none)
    loader          \* a GitHubLoader with the locals of its running method

vars == <<documents, chunk_size, chunk_overlap, strategy, pc, idx, doc, ast_chunks,
          all_chunks, import_map, ast_success, ast_failed, fallback_used, route,
          raised, loader>>

params == <<documents, chunk_size, chunk_overlap, strategy>>

NoDoc == Document(<<>>, <<>>)

\* process_documents takes its documents as an argument: no loader is at work.
NoLoader == <<>>

Init ==
    /\ documents \in InputLists
    /\ chunk_size \in ChunkSizes
    /\ chunk_overlap \in Overlaps
    /\ strategy \in Strategies
    /\ pc = "start"
    /\ idx = 0
    /\ doc = NoDoc
    /\ ast_chunks = <<>>
    /\ all_chunks = <<>>
    /\ import_map = <<>>
    /\ ast_success = 0
    /\ ast_failed = 0
    /\ fallback_used = 0
    /\ route = <<>>
    /\ raised = ""
    /\ loader = NoLoader

----------------------------------------------------------------------------
(* process_documents with strategy "hybrid": _hybrid_split                 *)

\* lines 281-286: the import map is built and the counters are zeroed
HybridStart ==
    /\ pc = "start"
    /\ strategy = "hybrid"
    /\ import_map' = _build_import_map(documents)
    /\ idx' = 1
    /\ pc' = "START"
    /\ UNCHANGED <<loader, params, doc, ast_chunks, all_chunks, ast_success, ast_failed,
                   fallback_used, route, raised>>

\* lines 288-299: the next document is taken and, if it is a notebook,
\* replaced by its parsed text
Normalize ==
    /\ pc = "START"
    /\ idx <= Len(documents)
    /\ Preprocess(documents[idx]).raised = ""
    /\ doc' = Preprocess(documents[idx]).doc
    /\ ast_chunks' = <<>>
    /\ pc' = "NORMALIZED"
    /\ UNCHANGED <<loader, params, idx, all_chunks, import_map, ast_success, ast_failed,
                   fallback_used, route, raised>>

\* line 295: parse_notebook raises; nothing in _hybrid_split or
\* process_documents catches it
NormalizeRaises ==
    /\ pc = "START"
    /\ idx <= Len(documents)
    /\ Preprocess(documents[idx]).raised # ""
    /\ raised' = Preprocess(documents[idx]).raised
    /\ pc' = "raised"
    /\ UNCHANGED <<loader, params, idx, doc, ast_chunks, all_chunks, import_map, ast_success,
                   ast_failed, fallback_used, route>>

\* lines 302-303: the structural attempt, for .py documents
StructuralAttempt ==
    /\ pc = "NORMALIZED"
    /\ Ext(Get(documents[idx].metadata, "source", "")) = ".py"
    /\ ast_chunks' = _split_python_with_ast(doc, chunk_size)
    /\ pc' = "STRUCTURAL_ATTEMPTED"
    /\ UNCHANGED <<loader, params, idx, doc, all_chunks, import_map, ast_success, ast_failed,
                   fallback_used, route, raised>>

\* StructuralOk with the fault of a missing `continue`: the iteration goes
\* on into the fallback
StructuralOkFallsThrough ==
    /\ pc = "STRUCTURAL_ATTEMPTED"
    /\ StructuralAccepted(ast_chunks, chunk_size)
    /\ all_chunks' = all_chunks \o ast_chunks
                        \o _language_aware_split(<<doc>>, chunk_size, chunk_overlap)
    /\ ast_success' = ast_success + 1
    /\ fallback_used' = fallback_used + 1
    /\ route' = Append(route, "STRUCTURAL_OK")
    /\ idx' = idx + 1
    /\ pc' = "START"
    /\ UNCHANGED <<loader, params, doc, ast_chunks, import_map, ast_failed, raised>>

\* lines 305-312: the structural chunks are accepted; continue
StructuralOk ==
    /\ pc = "STRUCTURAL_ATTEMPTED"
    /\ StructuralAccepted(ast_chunks, chunk_size)
    /\ all_chunks' = all_chunks \o ast_chunks
    /\ ast_success' = ast_success + 1
    /\ route' = Append(route, "STRUCTURAL_OK")
    /\ idx' = idx + 1
    /\ pc' = "START"
    /\ UNCHANGED <<loader, params, doc, ast_chunks, import_map, ast_failed, fallback_used,
                   raised>>

\* FallbackAfterAttempt with the fault of not running the splitter
FallbackAfterAttemptNoSplit ==
    /\ pc = "STRUCTURAL_ATTEMPTED"
    /\ ~StructuralAccepted(ast_chunks, chunk_size)
    /\ ast_failed' = ast_failed + 1
    /\ fallback_used' = fallback_used + 1
    /\ route' = Append(route, "FALLBACK")
    /\ idx' = idx + 1
    /\ pc' = "START"
    /\ UNCHANGED <<loader, params, doc, ast_chunks, all_chunks, import_map, ast_success, raised>>

\* lines 313-323 after a structural attempt that is not accepted
FallbackAfterAttempt ==
    /\ pc = "STRUCTURAL_ATTEMPTED"
    /\ ~StructuralAccepted(ast_chunks, chunk_size)
    /\ ast_failed' = ast_failed + 1
    /\ fallback_used' = fallback_used + 1
    /\ all_chunks' = all_chunks \o _language_aware_split(<<doc>>, chunk_size, chunk_overlap)
    /\ route' = Append(route, "FALLBACK")
    /\ idx' = idx + 1
    /\ pc' = "START"
    /\ UNCHANGED <<loader, params, doc, ast_chunks, import_map, ast_success, raised>>

\* FallbackDirect with the fault of putting the chunks of the file at the
\* front of the result
FallbackDirectAtFront ==
    /\ pc = "NORMALIZED"
    /\ Ext(Get(documents[idx].metadata, "source", "")) # ".py"
    /\ fallback_used' = fallback_used + 1
    /\ all_chunks' = _language_aware_split(<<doc>>, chunk_size, chunk_overlap) \o all_chunks
    /\ route' = Append(route, "FALLBACK")
    /\ idx' = idx + 1
    /\ pc' = "START"
    /\ UNCHANGED <<loader, params, doc, ast_chunks, import_map, ast_success, ast_failed,
                   raised>>

\* lines 320-323 for a document that is not .py
FallbackDirect ==
    /\ pc = "NORMALIZED"
    /\ Ext(Get(documents[idx].metadata, "source", "")) # ".py"
    /\ fallback_used' = fallback_used + 1
    /\ all_chunks' = all_chunks \o _language_aware_split(<<doc>>, chunk_size, chunk_overlap)
    /\ route' = Append(route, "FALLBACK")
    /\ idx' = idx + 1
    /\ pc' = "START"
    /\ UNCHANGED <<loader, params, doc, ast_chunks, import_map, ast_success, ast_failed,
                   raised>>

\* Enrich with the fault of returning the chunks without enriching them
EnrichNotRun ==
    /\ pc = "START"
    /\ idx > Len(documents)
    /\ pc' = "DONE"
    /\ UNCHANGED <<loader, params, idx, doc, ast_chunks, all_chunks, import_map, ast_success,
                   ast_failed, fallback_used, route, raised>>

\* lines 325-333: after the loop all chunks are enriched and returned
Enrich ==
    /\ pc = "START"
    /\ idx > Len(documents)
    /\ all_chunks' = _enrich_with_imports(all_chunks, import_map)
    /\ pc' = "DONE"
    /\ UNCHANGED <<loader, params, idx, doc, ast_chunks, import_map, ast_success, ast_failed,
                   fallback_used, route, raised>>

(* The other strategies of process_documents, lines 71-76                  *)

AstOnly ==
    /\ pc = "start"
    /\ strategy = "ast"
    /\ all_chunks' = _ast_only_split(documents, chunk_size)
    /\ pc' = "DONE"
    /\ UNCHANGED <<loader, params, idx, doc, ast_chunks, import_map, ast_success, ast_failed,
                   fallback_used, route, raised>>

LanguageOnly ==
    /\ pc = "start"
    /\ strategy = "language"
    /\ all_chunks' = _language_aware_split(documents, chunk_size, chunk_overlap)
    /\ pc' = "DONE"
    /\ UNCHANGED <<loader, params, idx, doc, ast_chunks, import_map, ast_success, ast_failed,
                   fallback_used, route, raised>>

Basic ==
    /\ pc = "start"
    /\ strategy = "basic"
    /\ all_chunks' = _basic_split(documents, chunk_size, chunk_overlap)
    /\ pc' = "DONE"
    /\ UNCHANGED <<loader, params, idx, doc, ast_chunks, import_map, ast_success, ast_failed,
                   fallback_used, route, raised>>

Next ==
    \/ HybridStart
    \/ Normalize
    \/ NormalizeRaises
    \/ StructuralAttempt
    \/ StructuralOk
    \/ FallbackAfterAttempt
    \/ FallbackDirect
    \/ Enrich
    \/ AstOnly
    \/ LanguageOnly
    \/ Basic

Spec == Init /\ [][Next]_vars

----------------------------------------------------------------------------
(* Vocabulary of the properties                                            *)

Hybrid == strategy = "hybrid"

SourceOf(d) == Get(d.metadata, "source", "")

\* a chunk of the structural path
IsStructural(c) == Get(c.metadata, "chunk_type", "") = "ast_node"

\* the chunks in the result so far that come from the file of this path
StructuralChunksOf(source) ==
    SelectSeq(all_chunks, LAMBDA c : SourceOf(c) = source /\ IsStructural(c))

GenericChunksOf(source) ==
    SelectSeq(all_chunks, LAMBDA c : SourceOf(c) = source /\ ~IsStructural(c))

\* the documents whose loop iteration is complete
Processed == 1..Len(route)

IsPython(d) == Ext(SourceOf(d)) = ".py"

IsNotebook(d) == Ext(SourceOf(d)) = ".ipynb"

HasNonWhitespace(text) == Strip(text) # <<>>

\* some definition of the file gives a structural chunk above the limit
HasOversizedNode(d) ==
    /\ IsPython(d)
    /\ AstParse(d.page_content).ok
    /\ \E node \in AstParse(d.page_content).nodes :
           ~WithinStructuralLimit(AstNodeCode(d, node), chunk_size)

----------------------------------------------------------------------------
(* C1 *)

\* C1: in the hybrid strategy a Python file with at least one definition
\* whose structural chunk is longer than 1.5 x chunk_size falls back as a
\* whole: no structural chunk of it is in the result and it is split by
\* the language-aware splitter.
C1_OversizedFileFallsBack ==
    Hybrid =>
        \A i \in Processed :
            HasOversizedNode(documents[i]) =>
                /\ route[i] = "FALLBACK"
                /\ StructuralChunksOf(SourceOf(documents[i])) = <<>>

----------------------------------------------------------------------------
(* C2 *)

\* C2: in the hybrid pipeline no file has both structural and generic
\* chunks in the result; a file whose structural chunks were accepted has
\* only structural chunks, a file that fell back has only generic ones.
C2_AllOrNothingPerFile ==
    Hybrid =>
        \A i \in Processed :
            LET src == SourceOf(documents[i])
            IN /\ StructuralChunksOf(src) = <<>> \/ GenericChunksOf(src) = <<>>
               /\ route[i] = "STRUCTURAL_OK" => GenericChunksOf(src) = <<>>
               /\ route[i] = "FALLBACK" => StructuralChunksOf(src) = <<>>

\* a finished run in which one file went the structural way and another
\* fell back, both with chunks
C2_Witness ==
    /\ Hybrid /\ pc = "DONE"
    /\ \E i, j \in Processed :
           /\ route[i] = "STRUCTURAL_OK" /\ route[j] = "FALLBACK"
           /\ StructuralChunksOf(SourceOf(documents[i])) # <<>>
           /\ GenericChunksOf(SourceOf(documents[j])) # <<>>

----------------------------------------------------------------------------
(* C3 *)

\* C3: whatever the content of a file, process_documents with the hybrid
\* strategy does not raise: no file's content makes an exception leave the
\* run, so the chunks of the other files are produced.
C3_NoFileAbortsTheRun ==
    Hybrid => pc # "raised" /\ raised = ""

----------------------------------------------------------------------------
(* C4 *)

\* the content begins with the import header line of its file, followed by
\* a non-empty import block
BeginsWithImportBlock(c) ==
    LET header == ImportsHeaderLine(SourceOf(c))
    IN /\ StartsWith(c.page_content, header)
       /\ Len(c.page_content) > Len(header)
       /\ c.page_content[Len(header) + 1] \notin Whitespace

\* C4: every chunk whose metadata has has_imports = true has content that
\* begins with the "# Imports from <source>" line followed by a non-empty
\* import block.
C4_HasImportsMeansHeader ==
    \A i \in 1..Len(all_chunks) :
        Get(all_chunks[i].metadata, "has_imports", FALSE)
            => BeginsWithImportBlock(all_chunks[i])

----------------------------------------------------------------------------
(* C5 *)

----------------------------------------------------------------------------
(* C6: the Import Enricher as a function of any chunk list and import map  *)

\* longest chunk list handed to the enricher on its own
MaxChunks == 2

SomeImports == <<"import", SP, "os">>

\* chunks with and without a source, with has_imports absent, false and
\* true, with and without a header already in the content
EnricherChunks ==
    {Document(c, m) :
        c \in {<<"x">>, WithImports("a.py", SomeImports, <<"x">>)},
        m \in {[source |-> "a.py"], [source |-> "r.md"], [type |-> "code"],
               [source |-> "a.py", has_imports |-> FALSE],
               [source |-> "a.py", has_imports |-> TRUE],
               [source |-> "r.md", has_imports |-> TRUE]}}

\* import maps: empty, with imports, with an empty entry, for two sources
EnricherMaps ==
    {<<>>, "a.py" :> SomeImports, "a.py" :> <<>>,
     ("a.py" :> SomeImports) @@ ("r.md" :> <<"from", SP, "os", SP, "import", SP, "x">>)}

InitEnrich ==
    /\ all_chunks \in UNION {[1..n -> EnricherChunks] : n \in 0..MaxChunks}
    /\ import_map \in EnricherMaps
    /\ pc = "ENRICHER"
    /\ idx = 0
    /\ documents = <<>>
    /\ chunk_size \in ChunkSizes
    /\ chunk_overlap = 0
    /\ strategy = "hybrid"
    /\ doc = NoDoc
    /\ ast_chunks = <<>>
    /\ ast_success = 0
    /\ ast_failed = 0
    /\ fallback_used = 0
    /\ route = <<>>
    /\ raised = ""
    /\ loader = NoLoader

\* one call of _enrich_with_imports(chunks, import_map) on the list the
\* previous call returned; idx counts the calls
EnrichAgain ==
    /\ pc = "ENRICHER"
    /\ idx < 2
    /\ all_chunks' = _enrich_with_imports(all_chunks, import_map)
    /\ idx' = idx + 1
    /\ UNCHANGED <<loader, params, pc, doc, ast_chunks, import_map, ast_success, ast_failed,
                   fallback_used, route, raised>>

NextEnrich == EnrichAgain

SpecEnrich == InitEnrich /\ [][NextEnrich]_vars

\* C6: import enrichment is idempotent: a second call of
\* _enrich_with_imports on the result of the first changes neither the
\* content nor the metadata of any chunk.
C6_EnrichmentIdempotent ==
    [][pc = "ENRICHER" /\ idx = 1 => all_chunks' = all_chunks]_vars

\* after two calls, a list in which the first call prepended a header to a
\* chunk that had none and left another chunk alone
C6_Witness ==
    /\ pc = "ENRICHER" /\ idx = 2
    /\ \E i, j \in 1..Len(all_chunks) :
           /\ "a.py" \in DOMAIN import_map
           /\ all_chunks[i].page_content
                  = WithImports("a.py", import_map["a.py"], <<"x">>)
           /\ Get(all_chunks[i].metadata, "has_imports", FALSE)
           /\ all_chunks[j].page_content = <<"x">>

----------------------------------------------------------------------------
(* C7 *)

\* the document of the input list with this path
DocumentOf(source) ==
    documents[CHOOSE i \in 1..Len(documents) : SourceOf(documents[i]) = source]

\* the content of a chunk without the prepended import block: the header
\* line, the imports and the blank separator line
WithoutImportBlock(c) ==
    LET header == ImportsHeaderLine(SourceOf(c))
        rest   == SubSeq(c.page_content, Len(header) + 1, Len(c.page_content))
        breaks == {k \in 1..Len(rest) : MatchAt(rest, <<NL, NL>>, k)}
        first  == CHOOSE k \in breaks : \A l \in breaks : k <= l
    IN IF StartsWith(c.page_content, header) /\ breaks # {}
       THEN SubSeq(rest, first + 2, Len(rest))
       ELSE c.page_content

\* lines a..b (1-indexed, inclusive) of a text, joined by line breaks
LinesOf(text, a, b) == JoinWith(Slice(SplitLines(text), a, b), <<NL>>)

\* C7: for every structural chunk, lines start_line..end_line of the
\* original file joined by newlines are the chunk's content without the
\* prepended import block.
C7_StructuralSpanIsContent ==
    \A k \in 1..Len(all_chunks) :
        IsStructural(all_chunks[k]) =>
            LET c == all_chunks[k]
                text == DocumentOf(SourceOf(c)).page_content
            IN /\ 1 <= c.metadata["start_line"]
               /\ c.metadata["start_line"] <= c.metadata["end_line"]
               /\ c.metadata["end_line"] <= Len(SplitLines(text))
               /\ WithoutImportBlock(c)
                      = LinesOf(text, c.metadata["start_line"], c.metadata["end_line"])

\* a result with a structural chunk that carries an import block and spans
\* several lines not starting at line 1, and one without import block
C7_Witness ==
    /\ pc = "DONE"
    /\ \E k \in 1..Len(all_chunks) :
           /\ IsStructural(all_chunks[k])
           /\ StartsWith(all_chunks[k].page_content,
                         ImportsHeaderLine(SourceOf(all_chunks[k])))
           /\ all_chunks[k].metadata["start_line"] > 1
           /\ all_chunks[k].metadata["end_line"] > all_chunks[k].metadata["start_line"]
    /\ \E k \in 1..Len(all_chunks) :
           /\ IsStructural(all_chunks[k])
           /\ ~StartsWith(all_chunks[k].page_content,
                          ImportsHeaderLine(SourceOf(all_chunks[k])))
           /\ all_chunks[k].metadata["start_line"] > 1

----------------------------------------------------------------------------
(* C8 *)

\* structural splitting has nothing to work on: the text does not parse,
\* or it parses and has no definition
NothingStructural(d) ==
    IsPython(d) /\ (~AstParse(d.page_content).ok \/ AstParse(d.page_content).nodes = {})

\* C8 as stated: a Python file that does not parse or has no definition
\* yields zero structural chunks and a non-empty set of generic chunks.
C8_NothingStructuralGivesGenericChunks ==
    Hybrid =>
        \A i \in Processed :
            NothingStructural(documents[i]) =>
                /\ StructuralChunksOf(SourceOf(documents[i])) = <<>>
                /\ GenericChunksOf(SourceOf(documents[i])) # <<>>

\* C8 amended: such a file yields zero structural chunks and is split by
\* the language-aware splitter; its generic chunks are non-empty when the
\* file has a character that is not white space, which every file with
\* invalid syntax has.
C8_NothingStructuralFallsBack ==
    Hybrid =>
        \A i \in Processed :
            NothingStructural(documents[i]) =>
                LET src == SourceOf(documents[i])
                    text == documents[i].page_content
                IN /\ route[i] = "FALLBACK"
                   /\ StructuralChunksOf(src) = <<>>
                   /\ HasNonWhitespace(text) => GenericChunksOf(src) # <<>>
                   /\ ~AstParse(text).ok => GenericChunksOf(src) # <<>>

\* a finished run with a file of invalid syntax and a file without
\* definitions, both with generic chunks
C8_Witness ==
    /\ Hybrid /\ pc = "DONE"
    /\ \E i, j \in Processed :
           /\ IsPython(documents[i]) /\ ~AstParse(documents[i].page_content).ok
           /\ GenericChunksOf(SourceOf(documents[i])) # <<>>
           /\ IsPython(documents[j]) /\ AstParse(documents[j].page_content).ok
           /\ AstParse(documents[j].page_content).nodes = {}
           /\ GenericChunksOf(SourceOf(documents[j])) # <<>>

----------------------------------------------------------------------------
(* C9 *)

\* a cell object whose source is a string or a list of strings
WellFormedCell(cell) ==
    /\ cell.t = "obj"
    /\ LET source == PairsGet(cell.f, "source", JList(<<>>))
       IN \/ source.t = "str"
          \/ /\ source.t = "list"
             /\ \A i \in 1..Len(source.items) : source.items[i].t = "str"

\* the expected notebook structure: an object whose cells are a list of
\* cell objects
WellFormedNotebook(v) ==
    /\ v.t = "obj"
    /\ LET cells == PairsGet(v.f, "cells", JList(<<>>))
       IN /\ cells.t = "list"
          /\ \A i \in 1..Len(cells.items) : WellFormedCell(cells.items[i])

\* the document of the current iteration is a notebook file
AtNotebook == Hybrid /\ idx \in 1..Len(documents) /\ IsNotebook(documents[idx])

\* C9: for content that is not the expected notebook structure (not JSON,
\* top level not an object, cells not a list of cell objects, a source
\* neither string nor list of strings) parse_notebook raises nothing and
\* returns the content unchanged.
C9_MalformedNotebookUnchanged ==
    AtNotebook /\ ~WellFormedNotebook(JsonLoads(documents[idx].page_content)) =>
        /\ pc # "raised"
        /\ pc = "NORMALIZED" => doc.page_content = documents[idx].page_content

----------------------------------------------------------------------------
(* C10 *)

NotJson(text) == JsonLoads(text).t = "error"

\* the contents of a chunk list
Contents(chunks) == [k \in 1..Len(chunks) |-> chunks[k].page_content]

----------------------------------------------------------------------------
(* C11 *)

\* no line of the text is longer than n
LongestLineWithin(text, n) ==
    \A k \in 1..Len(SplitLines(text)) : Len(SplitLines(text)[k]) <= n

\* the import block the enricher puts before a chunk of this path
ImportBlockOf(source) ==
    WithImports(source, Get(import_map, source, <<>>), <<>>)

\* C11 as stated: every generic chunk in the list the pipeline returns that
\* comes from a file whose longest line is at most chunk_size long has a
\* content of at most chunk_size characters.
C11_GenericChunkWithinChunkSize ==
    pc = "DONE" =>
        \A k \in 1..Len(all_chunks) :
            LET c == all_chunks[k]
            IN (~IsStructural(c)
                    /\ LongestLineWithin(DocumentOf(SourceOf(c)).page_content, chunk_size))
                   => Len(c.page_content) <= chunk_size

\* C11 amended: every generic chunk from a file whose longest line is at
\* most chunk_size long has at most chunk_size characters as the generic
\* splitter produces it; in the list the hybrid pipeline returns the chunks
\* the enricher marked with has_imports are longer by exactly the import
\* block of their file, and no other generic chunk is above chunk_size.
C11_GenericChunkWithinChunkSizeBeforeEnrichment ==
    \A k \in 1..Len(all_chunks) :
        LET c == all_chunks[k]
        IN (~IsStructural(c)
                /\ LongestLineWithin(DocumentOf(SourceOf(c)).page_content, chunk_size))
               => IF Get(c.metadata, "has_imports", FALSE)
                  THEN /\ Hybrid /\ pc = "DONE"
                       /\ StartsWith(c.page_content, ImportBlockOf(SourceOf(c)))
                       /\ Len(c.page_content) - Len(ImportBlockOf(SourceOf(c)))
                              <= chunk_size
                  ELSE Len(c.page_content) <= chunk_size

\* a finished hybrid run in which a file with lines within chunk_size was
\* cut into several generic chunks, one of them more than half of
\* chunk_size, and
\* another file's generic chunk carries the import block and is above
\* chunk_size
C11_Witness ==
    /\ Hybrid /\ pc = "DONE"
    /\ \E k, l \in 1..Len(all_chunks) :
           /\ k # l
           /\ ~IsStructural(all_chunks[k]) /\ ~IsStructural(all_chunks[l])
           /\ SourceOf(all_chunks[k]) = SourceOf(all_chunks[l])
           /\ LongestLineWithin(DocumentOf(SourceOf(all_chunks[k])).page_content,
                                chunk_size)
           /\ ~Get(all_chunks[k].metadata, "has_imports", FALSE)
           /\ 2 * Len(all_chunks[k].page_content) > chunk_size
    /\ \E k \in 1..Len(all_chunks) :
           /\ ~IsStructural(all_chunks[k])
           /\ LongestLineWithin(DocumentOf(SourceOf(all_chunks[k])).page_content,
                                chunk_size)
           /\ Get(all_chunks[k].metadata, "has_imports", FALSE)
           /\ Len(all_chunks[k].page_content) > chunk_size

----------------------------------------------------------------------------
(* C12 *)

\* the chunks, in this order, are pieces of the text: each occurs in it at
\* a start not before the start of the one before it, and every character
\* of the text that no chunk covers is in `lost`
RECURSIVE CoversFrom(_, _, _, _, _)
CoversFrom(text, chunks, covered, from, lost) ==
    IF chunks = <<>>
    THEN \A p \in (covered + 1)..Len(text) : text[p] \in lost
    ELSE LET c == Head(chunks)
         IN \E s \in from..(Len(text) - Len(c) + 1) :
                /\ MatchAt(text, c, s)
                /\ \A p \in (covered + 1)..(s - 1) : text[p] \in lost
                /\ CoversFrom(text, Tail(chunks),
                              IF s + Len(c) - 1 > covered THEN s + Len(c) - 1 ELSE covered,
                              s, lost)

\* the documents that took the generic path
GenericPath ==
    IF Hybrid THEN {i \in Processed : route[i] = "FALLBACK"}
    ELSE IF pc = "DONE" /\ strategy \in {"language", "basic"} THEN 1..Len(documents)
    ELSE {}

\* the text of document i as it reaches the generic splitter
SplitterInput(i) ==
    IF Hybrid THEN Preprocess(documents[i]).doc.page_content
    ELSE documents[i].page_content

\* C12 as stated: for every file that takes the generic path, its generic
\* chunks in output order, overlapped regions removed, are the original
\* content of the file exactly.
C12_GenericChunksReproduceFile ==
    pc = "DONE" =>
        \A i \in GenericPath :
            CoversFrom(documents[i].page_content,
                       Contents(GenericChunksOf(SourceOf(documents[i]))), 0, 1, {})

\* C12 amended: for every file that takes the generic path, its generic
\* chunks without the import block of the enricher are, in output order,
\* pieces of the file's content after notebook normalization, and the
\* only characters of that content outside every chunk are white space.
C12_GenericChunksCoverFileButWhitespace ==
    \A i \in GenericPath :
        LET chunks == GenericChunksOf(SourceOf(documents[i]))
        IN CoversFrom(SplitterInput(i),
                      [k \in 1..Len(chunks) |-> WithoutImportBlock(chunks[k])],
                      0, 1, Whitespace)

\* a finished hybrid run with a file cut into several generic chunks that
\* overlap, between two of which white space of the file is lost
C12_Witness ==
    /\ Hybrid /\ pc = "DONE" /\ chunk_overlap > 0
    /\ \E i \in GenericPath :
           LET chunks == Contents(GenericChunksOf(SourceOf(documents[i])))
           IN /\ Len(chunks) > 2
              /\ TotalLen(chunks) > Len(documents[i].page_content)
              /\ ~CoversFrom(documents[i].page_content, chunks, 0, 1, {})
              /\ CoversFrom(documents[i].page_content, chunks, 0, 1, Whitespace)

----------------------------------------------------------------------------
(* C13 *)

\* a Python file that does not parse and is shorter than chunk_size
SmallInvalidPython(d) ==
    /\ IsPython(d)
    /\ ~AstParse(d.page_content).ok
    /\ Len(d.page_content) < chunk_size

\* C13 as stated: a Python file with invalid syntax and a length below
\* chunk_size has, in the result of the hybrid pipeline, no structural
\* chunk and at least one generic chunk whose content is the text of the
\* file verbatim.
C13_InvalidPythonVerbatimChunk ==
    Hybrid /\ pc = "DONE" =>
        \A i \in Processed :
            SmallInvalidPython(documents[i]) =>
                /\ StructuralChunksOf(SourceOf(documents[i])) = <<>>
                /\ \E k \in 1..Len(all_chunks) :
                       /\ SourceOf(all_chunks[k]) = SourceOf(documents[i])
                       /\ ~IsStructural(all_chunks[k])
                       /\ all_chunks[k].page_content = documents[i].page_content

\* C13 amended: a Python file with invalid syntax and a length below
\* chunk_size has no structural chunk and exactly one generic chunk; its
\* content is the text of the file without leading and trailing white
\* space, and in the returned list, for a path ending in .py with leading
\* imports, that text preceded by the import block of the file.
C13_InvalidPythonSingleStrippedChunk ==
    Hybrid =>
        \A i \in Processed :
            SmallInvalidPython(documents[i]) =>
                LET src     == SourceOf(documents[i])
                    text    == documents[i].page_content
                    imports == IF EndsWithPy(src) THEN _extract_imports(text) ELSE <<>>
                IN /\ StructuralChunksOf(src) = <<>>
                   /\ Len(GenericChunksOf(src)) = 1
                   /\ GenericChunksOf(src)[1].page_content
                          = IF pc = "DONE" /\ imports # <<>>
                            THEN WithImports(src, imports, Strip(text))
                            ELSE Strip(text)

\* a finished hybrid run with such a file: it begins with an import and
\* ends in a line break, and its chunk is not the text of the file
C13_Witness ==
    /\ Hybrid /\ pc = "DONE"
    /\ \E i \in Processed :
           /\ SmallInvalidPython(documents[i])
           /\ _extract_imports(documents[i].page_content) # <<>>
           /\ documents[i].page_content[Len(documents[i].page_content)] = NL
           /\ Len(GenericChunksOf(SourceOf(documents[i]))) = 1
           /\ GenericChunksOf(SourceOf(documents[i]))[1].page_content
                  # documents[i].page_content

----------------------------------------------------------------------------
(* C14 *)

\* the chunk the claim expects for one definition of a document: the
\* import block of the file, then the lines of the definition
ExpectedStructuralContent(d, node) ==
    WithImports(SourceOf(d), _extract_imports(d.page_content),
                LinesOf(d.page_content, node.lineno, node.end_lineno))

\* a Python file that parses, begins with imports, and whose definitions
\* all give a chunk within 1.5 x chunk_size
ParsesWithImportsAllFit(d) ==
    /\ IsPython(d)
    /\ AstParse(d.page_content).ok
    /\ _extract_imports(d.page_content) # <<>>
    /\ \A node \in AstParse(d.page_content).nodes :
           2 * Len(ExpectedStructuralContent(d, node)) <= 3 * chunk_size

\* C14: for a Python file that parses, has a non-empty leading import
\* header and whose definitions all fit within 1.5 x chunk_size, the hybrid
\* pipeline gives exactly one structural chunk per definition, those of
\* top-level definitions in source order, each beginning with the import
\* header of the file, with node_name the name of the definition and
\* start_line, end_line its 1-indexed line span.
C14_OneStructuralChunkPerDefinition ==
    Hybrid =>
        \A i \in Processed :
            ParsesWithImportsAllFit(documents[i]) =>
                LET d      == documents[i]
                    nodes  == AstParse(d.page_content).nodes
                    chunks == StructuralChunksOf(SourceOf(d))
                    Is(k, node) ==
                        /\ chunks[k].metadata["node_name"] = node.name
                        /\ chunks[k].metadata["start_line"] = node.lineno
                        /\ chunks[k].metadata["end_line"] = node.end_lineno
                        /\ chunks[k].page_content = ExpectedStructuralContent(d, node)
                IN /\ Len(chunks) = Cardinality(nodes)
                   /\ \A node \in nodes :
                          Cardinality({k \in 1..Len(chunks) : Is(k, node)}) = 1
                   /\ \A m, n \in nodes :
                          (m.depth = 1 /\ n.depth = 1 /\ m.lineno < n.lineno) =>
                              \E k, l \in 1..Len(chunks) :
                                  k < l /\ Is(k, m) /\ Is(l, n)

\* a finished hybrid run on the math_utils.py example: exactly two
\* structural chunks, add at lines 3-4 and then sub at lines 6-7, each
\* beginning with the import block with `import os`
C14_Witness ==
    /\ Hybrid /\ pc = "DONE"
    /\ \E i \in Processed :
           LET chunks == StructuralChunksOf(SourceOf(documents[i]))
               block  == WithImports(SourceOf(documents[i]), <<"import", SP, "os">>, <<>>)
           IN /\ documents[i].page_content = PyMath
              /\ ParsesWithImportsAllFit(documents[i])
              /\ Len(chunks) = 2
              /\ chunks[1].metadata["node_name"] = "add"
              /\ chunks[1].metadata["start_line"] = 3
              /\ chunks[1].metadata["end_line"] = 4
              /\ chunks[2].metadata["node_name"] = "sub"
              /\ chunks[2].metadata["start_line"] = 6
              /\ chunks[2].metadata["end_line"] = 7
              /\ StartsWith(chunks[1].page_content, block)
              /\ StartsWith(chunks[2].page_content, block)

----------------------------------------------------------------------------
(* C15 *)

\* the metadata keys that describe the definition of a structural chunk
NodeFields == {"node_name", "node_type", "start_line", "end_line"}

\* C15: in every chunk list the pipeline builds, a chunk has node_name,
\* node_type, start_line and end_line exactly when it is tagged as a
\* structural chunk; then node_name is a name, node_type is function or
\* class and 1 <= start_line <= end_line. A generic chunk has none of the
\* four keys.
C15_NodeFieldsIffStructural ==
    \A k \in 1..Len(all_chunks) :
        LET m == all_chunks[k].metadata
        IN IF IsStructural(all_chunks[k])
           THEN /\ NodeFields \subseteq DOMAIN m
                /\ m["node_name"] \notin {"", "None"}
                /\ m["node_type"] \in {"function", "class"}
                /\ m["start_line"] \in Nat /\ m["end_line"] \in Nat
                /\ 1 <= m["start_line"]
                /\ m["start_line"] <= m["end_line"]
           ELSE NodeFields \cap DOMAIN m = {}

\* a finished hybrid run whose result has a structural chunk of a class,
\* one of a function, and a generic chunk
C15_Witness ==
    /\ Hybrid /\ pc = "DONE"
    /\ \E k, l, g \in 1..Len(all_chunks) :
           /\ IsStructural(all_chunks[k])
           /\ all_chunks[k].metadata["node_type"] = "class"
           /\ IsStructural(all_chunks[l])
           /\ all_chunks[l].metadata["node_type"] = "function"
           /\ ~IsStructural(all_chunks[g])
           /\ DOMAIN all_chunks[g].metadata # {}

----------------------------------------------------------------------------
(* C16 *)

\* the chunk has every metadata key of the document, with the same value
CarriesMetadataOf(c, d) ==
    \A key \in DOMAIN d.metadata :
        key \in DOMAIN c.metadata /\ c.metadata[key] = d.metadata[key]

\* C16: under every strategy and for every input list, each chunk of the
\* result has a metadata.source that is the source of some input document,
\* and has all metadata keys of that document with the same values.
C16_ChunkCarriesFileMetadata ==
    \A k \in 1..Len(all_chunks) :
        /\ "source" \in DOMAIN all_chunks[k].metadata
        /\ \E i \in 1..Len(documents) :
               /\ all_chunks[k].metadata["source"] = documents[i].metadata["source"]
               /\ CarriesMetadataOf(all_chunks[k], documents[i])

\* a finished hybrid run whose result has a structural chunk, an enriched
\* generic chunk and a chunk of a notebook, each with metadata keys beyond
\* those of its file
C16_Witness ==
    /\ Hybrid /\ pc = "DONE"
    /\ \E k, l \in 1..Len(all_chunks) :
           /\ IsStructural(all_chunks[k])
           /\ ~IsStructural(all_chunks[l])
           /\ \/ Get(all_chunks[l].metadata, "has_imports", FALSE)
              \/ Get(all_chunks[l].metadata, "preprocessed", "") = "notebook"
           /\ \A c \in {all_chunks[k], all_chunks[l]} :
                  /\ CarriesMetadataOf(c, DocumentOf(SourceOf(c)))
                  /\ DOMAIN c.metadata # DOMAIN DocumentOf(SourceOf(c)).metadata

----------------------------------------------------------------------------
(* C17 *)

\* C17: every structural chunk the structural splitter returns, and so
\* every structural chunk of the result, has a content, import block
\* included, of at most 1.5 x chunk_size characters; a definition whose
\* chunk would be longer has no structural chunk.
C17_StructuralChunkWithinLimit ==
    /\ \A k \in 1..Len(ast_chunks) :
           2 * Len(ast_chunks[k].page_content) <= 3 * chunk_size
    /\ \A k \in 1..Len(all_chunks) :
           IsStructural(all_chunks[k]) =>
               2 * Len(all_chunks[k].page_content) <= 3 * chunk_size
    /\ pc = "DONE" =>
           \A i \in 1..Len(documents) :
               AstParse(documents[i].page_content).ok =>
                   \A node \in AstParse(documents[i].page_content).nodes :
                       2 * Len(AstNodeCode(documents[i], node)) > 3 * chunk_size =>
                           \A k \in 1..Len(all_chunks) :
                               ~(/\ IsStructural(all_chunks[k])
                                 /\ SourceOf(all_chunks[k]) = SourceOf(documents[i])
                                 /\ all_chunks[k].metadata["node_name"] = node.name)

\* the structural splitter has returned the chunk of one definition of a
\* file and left out another whose chunk is above the limit; the chunk
\* returned is longer than chunk_size and begins with an import block
C17_Witness ==
    /\ \E i \in 1..Len(documents) :
           /\ HasOversizedNode(documents[i])
           /\ \E k \in 1..Len(all_chunks) :
                  /\ IsStructural(all_chunks[k])
                  /\ SourceOf(all_chunks[k]) = SourceOf(documents[i])
    /\ \E k \in 1..Len(all_chunks) :
           /\ IsStructural(all_chunks[k])
           /\ Len(all_chunks[k].page_content) > chunk_size
           /\ BeginsWithImportBlock(all_chunks[k])

----------------------------------------------------------------------------
(* C18 *)

\* the steps of pc that the order START, NORMALIZED, STRUCTURAL_ATTEMPTED,
\* {STRUCTURAL_OK, FALLBACK}, enrichment admits; the outcome of a file is
\* the entry its iteration appends to route as pc goes back to START
OrderedSteps ==
    {<<"start", "START">>, <<"START", "NORMALIZED">>,
     <<"NORMALIZED", "STRUCTURAL_ATTEMPTED">>, <<"NORMALIZED", "START">>,
     <<"STRUCTURAL_ATTEMPTED", "START">>, <<"START", "DONE">>}

\* one step of a hybrid run keeps the order of the states: normalization
\* comes before any splitting of the file, the structural attempt is for
\* Python files, a file gets exactly one outcome, and the enricher runs
\* after the last file over all chunks and ends the run
HybridStepInOrder(steps) ==
    Hybrid =>
        /\ <<pc, pc'>> \in steps
        /\ pc' = "NORMALIZED" =>
               /\ doc' = Preprocess(documents[idx]).doc
               /\ all_chunks' = all_chunks /\ route' = route
        /\ pc' = "STRUCTURAL_ATTEMPTED" =>
               /\ IsPython(documents[idx])
               /\ all_chunks' = all_chunks /\ route' = route
        /\ (pc \in {"NORMALIZED", "STRUCTURAL_ATTEMPTED"} /\ pc' = "START") =>
               /\ \E outcome \in {"STRUCTURAL_OK", "FALLBACK"} :
                      /\ route' = Append(route, outcome)
                      /\ outcome = "STRUCTURAL_OK" => pc = "STRUCTURAL_ATTEMPTED"
               /\ Len(route') = idx /\ idx' = idx + 1
        /\ pc \in {"start", "START"} /\ pc' # "DONE" =>
               all_chunks' = all_chunks /\ route' = route
        /\ pc' = "DONE" =>
               /\ idx > Len(documents) /\ Len(route) = Len(documents)
               /\ all_chunks' = _enrich_with_imports(all_chunks, import_map)
               /\ route' = route

\* the order of the states but for the step by which an exception of
\* parse_notebook leaves the run: every other step of a hybrid run is in
\* order
StateOrderButForException ==
    [][HybridStepInOrder(OrderedSteps \cup {<<"START", "raised">>})]_vars

\* the positions of a run that is not over
InProgress == {"start", "START", "NORMALIZED", "STRUCTURAL_ATTEMPTED"}

\* C18: in the hybrid pipeline each file passes through START, NORMALIZED,
\* STRUCTURAL_ATTEMPTED and then exactly one of STRUCTURAL_OK and FALLBACK,
\* in this order, with notebook normalization before any splitting and the
\* structural attempt only for Python files, and the import enricher runs
\* exactly once per run, after the last file has been split, over the
\* chunks of all files: every step is in order, and a run that is over has
\* given every file its outcome and has run the enricher.
C18_HybridStateMachine ==
    /\ [][HybridStepInOrder(OrderedSteps)]_vars
    /\ [](Hybrid /\ pc \notin InProgress =>
              pc = "DONE" /\ Len(route) = Len(documents))

----------------------------------------------------------------------------
(* C19 *)

\* the position in the input list of the file a chunk comes from
FileIndexOf(c) ==
    CHOOSE i \in 1..Len(documents) : SourceOf(documents[i]) = SourceOf(c)

\* C19: under every strategy the chunks of the result follow the order of
\* the input: for input files at positions i < j every chunk of file i is
\* before every chunk of file j.
C19_ChunkOrderFollowsInputOrder ==
    \A k, l \in 1..Len(all_chunks) :
        FileIndexOf(all_chunks[k]) < FileIndexOf(all_chunks[l]) => k < l

\* a finished run over two files, the first with several chunks and the
\* second with structural chunks that have generic chunks before them
C19_Witness ==
    /\ pc = "DONE" /\ Len(documents) = 2
    /\ \E k, l, m \in 1..Len(all_chunks) :
           /\ k < l /\ l < m
           /\ FileIndexOf(all_chunks[k]) = 1 /\ ~IsStructural(all_chunks[k])
           /\ FileIndexOf(all_chunks[l]) = 1
           /\ FileIndexOf(all_chunks[m]) = 2 /\ IsStructural(all_chunks[m])

----------------------------------------------------------------------------
(* C20 *)

\* the chunks of the result that come from document i
ChunksOfFile(i) ==
    SelectSeq(all_chunks, LAMBDA c : SourceOf(c) = SourceOf(documents[i]))

\* C20: with the structural-only strategy ("ast") a file that is not
\* Python or fails structural parsing has no chunk in the result and the
\* generic splitter is not run, so every chunk is structural; with the
\* language-aware-only ("language") and the plain generic ("basic")
\* strategy the structural splitter is not attempted and no chunk of the
\* result is tagged structural.
C20_StrategySelection ==
    /\ strategy = "ast" =>
           /\ \A i \in 1..Len(documents) :
                  (~IsPython(documents[i]) \/ ~AstParse(documents[i].page_content).ok)
                      => ChunksOfFile(i) = <<>>
           /\ \A k \in 1..Len(all_chunks) : IsStructural(all_chunks[k])
           /\ fallback_used = 0
    /\ strategy \in {"language", "basic"} =>
           /\ \A k \in 1..Len(all_chunks) : ~IsStructural(all_chunks[k])
           /\ ast_chunks = <<>> /\ ast_success = 0 /\ ast_failed = 0

\* a finished structural-only run over a Python file that does not parse
\* and has no chunk, and a Python file with structural chunks
C20_Witness ==
    /\ strategy = "ast" /\ pc = "DONE"
    /\ \E i, j \in 1..Len(documents) :
           /\ IsPython(documents[i])
           /\ ~AstParse(documents[i].page_content).ok
           /\ HasNonWhitespace(documents[i].page_content)
           /\ ChunksOfFile(i) = <<>>
           /\ ChunksOfFile(j) # <<>>

----------------------------------------------------------------------------
(* C21 *)

\* the chunk does not carry imports yet and its file has a recorded,
\* non-empty import header
ToBeEnriched(c) ==
    /\ ~Get(c.metadata, "has_imports", FALSE)
    /\ Get(import_map, SourceOf(c), <<>>) # <<>>

\* chunk e is chunk c with the import block of its file put before the
\* content and has_imports set, every other metadata key as it was
EnrichedFrom(e, c) ==
    /\ e.page_content
           = ImportsHeaderLine(SourceOf(c)) \o import_map[SourceOf(c)]
                 \o <<NL, NL>> \o c.page_content
    /\ DOMAIN e.metadata = DOMAIN c.metadata \cup {"has_imports"}
    /\ e.metadata["has_imports"] = TRUE
    /\ \A key \in DOMAIN c.metadata \ {"has_imports"} :
           e.metadata[key] = c.metadata[key]

\* C21: a call of the import enricher changes exactly the chunks that do
\* not carry imports yet and whose file has a recorded non-empty import
\* header: their content becomes header comment, imports, blank line, old
\* content and has_imports becomes true; every chunk with has_imports =
\* true and every chunk whose file has no recorded imports keeps content
\* and metadata, and the list keeps its length and order.
C21_EnricherFrame ==
    [][pc = "ENRICHER" =>
          /\ Len(all_chunks') = Len(all_chunks)
          /\ \A i \in 1..Len(all_chunks) :
                 IF ToBeEnriched(all_chunks[i])
                 THEN /\ EnrichedFrom(all_chunks'[i], all_chunks[i])
                      /\ all_chunks'[i] # all_chunks[i]
                 ELSE all_chunks'[i] = all_chunks[i]]_vars

\* after one call: a chunk that was enriched stands before a chunk of the
\* same file with has_imports = true that was left without import block
C21_Witness ==
    /\ pc = "ENRICHER" /\ idx = 1 /\ Len(all_chunks) = 2
    /\ Get(import_map, "a.py", <<>>) # <<>>
    /\ SourceOf(all_chunks[1]) = "a.py"
    /\ all_chunks[1].page_content = WithImports("a.py", import_map["a.py"], <<"x">>)
    /\ SourceOf(all_chunks[2]) = "a.py"
    /\ Get(all_chunks[2].metadata, "has_imports", FALSE)
    /\ all_chunks[2].page_content = <<"x">>

----------------------------------------------------------------------------
(* C22: process_documents over objects.  Python Documents are objects with *)
(* a rebindable page_content and a mutable metadata dict.  In this         *)
(* specification `documents` is the state of the input objects as the      *)
(* caller sees them, and every chunk object of all_chunks records whether  *)
(* it is one of the input objects (object_of) or holds the metadata dict   *)
(* of one (dict_of); 0 stands for an object or dict of its own.            *)

\* Document(page_content=..., metadata={**document.metadata, ...}) of the
\* structural splitter: new objects with new dicts; i is the position of
\* the input document the chunks were made from
StructuralChunkObjects(chunks, i) ==
    [k \in 1..Len(chunks) |->
        [page_content |-> chunks[k].page_content, metadata |-> chunks[k].metadata,
         object_of |-> 0, dict_of |-> 0]]

\* GenericChunkObjects with the fault of giving the chunks the metadata
\* dict of the document instead of a copy
GenericChunkObjectsSharedDict(chunks, i) ==
    [k \in 1..Len(chunks) |->
        [page_content |-> chunks[k].page_content, metadata |-> chunks[k].metadata,
         object_of |-> 0, dict_of |-> i]]

\* split_documents: new Document objects, each with a deep copy of the
\* metadata
GenericChunkObjects(chunks, i) ==
    [k \in 1..Len(chunks) |->
        [page_content |-> chunks[k].page_content, metadata |-> chunks[k].metadata,
         object_of |-> 0, dict_of |-> 0]]

\* the input object after the notebook preprocessing of its iteration: the
\* loop binds the name doc to a new Document, the object of the list keeps
\* its fields
InputAfterPreprocess(document) == document

\* the value of a chunk object as a Document
ValueOf(c) == Document(c.page_content, c.metadata)

\* _enrich_with_imports on objects: each chunk object is updated in place
EnrichObjects(chunks, map) ==
    [k \in 1..Len(chunks) |->
        [page_content |-> EnrichChunk(ValueOf(chunks[k]), map).page_content,
         metadata |-> EnrichChunk(ValueOf(chunks[k]), map).metadata,
         object_of |-> chunks[k].object_of, dict_of |-> chunks[k].dict_of]]

\* what the in-place updates of the enricher leave of input object i
InputAfterEnrich(i, chunks, map) ==
    LET same   == {k \in 1..Len(chunks) : chunks[k].object_of = i}
        shared == {k \in 1..Len(chunks) :
                      /\ chunks[k].dict_of = i
                      /\ EnrichChunk(ValueOf(chunks[k]), map) # ValueOf(chunks[k])}
    IN IF same # {}
       THEN EnrichChunk(ValueOf(chunks[CHOOSE k \in same : TRUE]), map)
       ELSE IF shared # {}
       THEN Document(documents[i].page_content,
                     Merge(documents[i].metadata, [has_imports |-> TRUE]))
       ELSE documents[i]

InitObjects ==
    /\ documents \in InputLists
    /\ chunk_size \in ChunkSizes
    /\ chunk_overlap = 0
    /\ strategy \in Strategies
    /\ pc = "objects_start"
    /\ idx = 0
    /\ doc = NoDoc
    /\ ast_chunks = <<>>
    /\ all_chunks = <<>>
    /\ import_map = <<>>
    /\ ast_success = 0
    /\ ast_failed = 0
    /\ fallback_used = 0
    /\ route = <<>>
    /\ raised = ""
    /\ loader = NoLoader

\* lines 281-286 of _hybrid_split
ObjectsHybridStart ==
    /\ pc = "objects_start" /\ strategy = "hybrid"
    /\ import_map' = _build_import_map(documents)
    /\ idx' = 1
    /\ pc' = "objects_loop"
    /\ UNCHANGED <<loader, params, doc, ast_chunks, all_chunks, ast_success, ast_failed,
                   fallback_used, route, raised>>

\* lines 288-323: one iteration of the loop of _hybrid_split
ObjectsHybridFile ==
    /\ pc = "objects_loop" /\ idx <= Len(documents)
    /\ Preprocess(documents[idx]).raised = ""
    /\ LET d == Preprocess(documents[idx]).doc
           structural == IF Ext(SourceOf(documents[idx])) = ".py"
                         THEN _split_python_with_ast(d, chunk_size) ELSE <<>>
       IN all_chunks' = all_chunks \o
              (IF StructuralAccepted(structural, chunk_size)
               THEN StructuralChunkObjects(structural, idx)
               ELSE GenericChunkObjects(
                        _language_aware_split(<<d>>, chunk_size, chunk_overlap), idx))
    /\ documents' = [documents EXCEPT ![idx] = InputAfterPreprocess(documents[idx])]
    /\ idx' = idx + 1
    /\ UNCHANGED <<loader, chunk_size, chunk_overlap, strategy, pc, doc, ast_chunks, import_map,
                   ast_success, ast_failed, fallback_used, route, raised>>

\* line 295: the exception of parse_notebook leaves the run
ObjectsHybridRaises ==
    /\ pc = "objects_loop" /\ idx <= Len(documents)
    /\ Preprocess(documents[idx]).raised # ""
    /\ raised' = Preprocess(documents[idx]).raised
    /\ pc' = "objects_raised"
    /\ UNCHANGED <<loader, params, idx, doc, ast_chunks, all_chunks, import_map, ast_success,
                   ast_failed, fallback_used, route>>

\* line 326: the enricher updates the chunk objects in place
ObjectsEnrich ==
    /\ pc = "objects_loop" /\ idx > Len(documents)
    /\ all_chunks' = EnrichObjects(all_chunks, import_map)
    /\ documents' = [i \in 1..Len(documents) |->
                        InputAfterEnrich(i, all_chunks, import_map)]
    /\ pc' = "objects_done"
    /\ UNCHANGED <<loader, chunk_size, chunk_overlap, strategy, idx, doc, ast_chunks,
                   import_map, ast_success, ast_failed, fallback_used, route, raised>>

\* lines 71-76: the strategies without enricher
ObjectsOtherStrategy ==
    /\ pc = "objects_start" /\ strategy # "hybrid"
    /\ all_chunks' =
           IF strategy = "ast"
           THEN StructuralChunkObjects(_ast_only_split(documents, chunk_size), 0)
           ELSE IF strategy = "language"
           THEN GenericChunkObjects(
                    _language_aware_split(documents, chunk_size, chunk_overlap), 0)
           ELSE GenericChunkObjects(
                    _basic_split(documents, chunk_size, chunk_overlap), 0)
    /\ pc' = "objects_done"
    /\ UNCHANGED <<loader, params, idx, doc, ast_chunks, import_map, ast_success, ast_failed,
                   fallback_used, route, raised>>

NextObjects ==
    \/ ObjectsHybridStart
    \/ ObjectsHybridFile
    \/ ObjectsHybridRaises
    \/ ObjectsEnrich
    \/ ObjectsOtherStrategy

SpecObjects == InitObjects /\ [][NextObjects]_vars

\* C22: process_documents leaves every input document unchanged: through
\* notebook normalization and the in-place updates of the enricher the
\* page_content and metadata of each input document stay what they were
\* before the call, and no chunk is an input object or holds the metadata
\* dict of one.
C22_InputDocumentsUnchanged ==
    /\ [][documents' = documents]_vars
    /\ [](\A k \in 1..Len(all_chunks) :
              all_chunks[k].object_of = 0 /\ all_chunks[k].dict_of = 0)

\* a finished hybrid run in which the enricher updated a chunk of a file
\* and a chunk comes from a normalized notebook, while the two input
\* documents have neither has_imports nor preprocessed in their metadata
C22_Witness ==
    /\ pc = "objects_done" /\ strategy = "hybrid" /\ Len(documents) = 2
    /\ \E k, l \in 1..Len(all_chunks) :
           /\ Get(all_chunks[k].metadata, "has_imports", FALSE)
           /\ Get(all_chunks[k].metadata, "chunk_type", "") # "ast_node"
           /\ Get(all_chunks[l].metadata, "preprocessed", "") = "notebook"
    /\ \A i \in 1..Len(documents) :
           DOMAIN documents[i].metadata = {"source", "type"}

----------------------------------------------------------------------------
(* C23, C24: _extract_imports as a function of any code, through           *)
(* _build_import_map                                                       *)

\* longest code in lines
MaxLines == 3

\* a string literal statement, as a module docstring is
DOCSTRING == "'''d'''"

\* the lines codes are made of: imports, an indented import, a comment, an
\* empty line, a statement, a docstring, and an import that spans two lines
CodeLines ==
    {<<"import", SP, "os">>,
     <<"from", SP, "os", SP, "import", SP, "x">>,
     <<SP, "import", SP, "os">>,
     <<"#", SP, "c">>,
     <<>>,
     <<"x">>,
     <<DOCSTRING>>,
     <<"from", SP, "os", SP, "import", SP, "(">>,
     <<SP, "x", ")">>}

\* the codes of up to MaxLines lines
Codes ==
    {JoinWith(ls, <<NL>>) : ls \in UNION {[1..n -> CodeLines] : n \in 1..MaxLines}}

InitImports ==
    /\ documents \in {<<Document(code, FileMetadata("a.py"))>> : code \in Codes}
    /\ chunk_size \in ChunkSizes
    /\ chunk_overlap = 0
    /\ strategy = "hybrid"
    /\ pc = "imports_start"
    /\ idx = 0
    /\ doc = NoDoc
    /\ ast_chunks = <<>>
    /\ all_chunks = <<>>
    /\ import_map = <<>>
    /\ ast_success = 0
    /\ ast_failed = 0
    /\ fallback_used = 0
    /\ route = <<>>
    /\ raised = ""
    /\ loader = NoLoader

\* line 282: import_map = _build_import_map(documents)
BuildImportMap ==
    /\ pc = "imports_start"
    /\ import_map' = _build_import_map(documents)
    /\ pc' = "imports_done"
    /\ UNCHANGED <<loader, params, idx, doc, ast_chunks, all_chunks, ast_success, ast_failed,
                   fallback_used, route, raised>>

NextImports == BuildImportMap

SpecImports == InitImports /\ [][NextImports]_vars

\* the code of the run and the header recorded for it ("" when none is)
TheCode == documents[1].page_content

TheHeader == Get(import_map, SourceOf(documents[1]), <<>>)

\* an import-style line
IsImportStyle(line) ==
    StartsWith(Strip(line), <<"import", SP>>) \/ StartsWith(Strip(line), <<"from", SP>>)

\* a substantive line that is not import-style
IsSubstantive(line) ==
    Strip(line) # <<>> /\ ~StartsWith(Strip(line), <<"#">>) /\ ~IsImportStyle(line)

\* the lines before the first substantive non-import line
BeforeStop(lines) ==
    LET stops == {j \in 1..Len(lines) : IsSubstantive(lines[j])}
    IN IF stops = {} THEN lines
       ELSE SubSeq(lines, 1, (CHOOSE j \in stops : \A k \in stops : j <= k) - 1)

\* the lines from the first to the last import-style line of a sequence
FirstToLastImport(lines) ==
    LET at == {j \in 1..Len(lines) : IsImportStyle(lines[j])}
    IN IF at = {} THEN <<>>
       ELSE SubSeq(lines, CHOOSE j \in at : \A k \in at : j <= k,
                          CHOOSE j \in at : \A k \in at : j >= k)

\* C23 as stated: the import header of a file is the contiguous run of
\* import-style lines from the top together with the blank and comment
\* lines among them, up to the first substantive non-import line; no line
\* after that point is part of it.
C23_HeaderIsImportRunWithCommentsAmongIt ==
    pc = "imports_done" =>
        TheHeader = JoinWith(FirstToLastImport(BeforeStop(SplitLines(TheCode))), <<NL>>)

\* C23 amended: the import header of a file is the import-style lines
\* before the first substantive non-import line, in order, joined by line
\* breaks; the blank and comment lines among them are passed over, not
\* collected, and no line after that point is part of the header.
C23_HeaderIsImportLinesBeforeStop ==
    pc = "imports_done" =>
        TheHeader = JoinWith(SelectSeq(BeforeStop(SplitLines(TheCode)), IsImportStyle),
                             <<NL>>)

\* a header was taken from a code with a comment between two imports: it
\* has the two import lines only
C23_Witness ==
    /\ pc = "imports_done"
    /\ \E j \in 2..Len(SplitLines(TheCode)) - 1 :
           /\ IsImportStyle(SplitLines(TheCode)[j - 1])
           /\ StartsWith(SplitLines(TheCode)[j], <<"#">>)
           /\ IsImportStyle(SplitLines(TheCode)[j + 1])
    /\ Len(SplitLines(TheHeader)) = 2

----------------------------------------------------------------------------
(* C24 *)

RECURSIVE ImportStatementLines(_, _)
\* the lines of the import statements of a code, in order: the
\* import-style lines and, for an import with an open parenthesis, the
\* lines up to the one that closes it
ImportStatementLines(lines, open) ==
    IF lines = <<>> THEN <<>>
    ELSE LET line   == Head(lines)
             has(t) == \E k \in 1..Len(line) : line[k] = t
             part   == open \/ IsImportStyle(line)
             after  == IF part /\ has("(") /\ ~has(")") THEN TRUE
                       ELSE IF open /\ has(")") THEN FALSE
                       ELSE open
         IN (IF part THEN <<line>> ELSE <<>>)
                \o ImportStatementLines(Tail(lines), after)

\* C24: _extract_imports extracts all import statements of the code it is
\* given: every import or from statement of the file, also after a module
\* docstring and over several lines, is completely in the returned header.
C24_AllImportStatementsExtracted ==
    pc = "imports_done" =>
        TheHeader = JoinWith(ImportStatementLines(SplitLines(TheCode), FALSE), <<NL>>)

----------------------------------------------------------------------------
(* C25 *)

\* the definition nodes of a document whose chunk is within the limit
FittingNodes(d) ==
    {node \in AstParse(d.page_content).nodes :
        2 * Len(AstNodeCode(d, node)) <= 3 * chunk_size}

\* the chunk is the structural chunk of this definition node
IsChunkOfNode(c, node) ==
    /\ IsStructural(c)
    /\ c.metadata["node_name"] = node.name
    /\ c.metadata["node_type"] = node.type
    /\ c.metadata["start_line"] = node.lineno
    /\ c.metadata["end_line"] = node.end_lineno

\* the chunks are, one for one, the chunks of the fitting definitions of d
OneChunkPerFittingNode(chunks, d) ==
    /\ Len(chunks) = Cardinality(FittingNodes(d))
    /\ \A node \in FittingNodes(d) :
           Cardinality({k \in 1..Len(chunks) : IsChunkOfNode(chunks[k], node)}) = 1

\* C25: the structural splitter visits the definition nodes of every
\* nesting depth independently: for a file that parses, each function and
\* class definition whose chunk is within 1.5 x chunk_size has exactly one
\* structural chunk, so a class and a method nested in it both have a
\* chunk, with overlapping line ranges.
C25_EveryDefinitionAtEveryDepth ==
    /\ (Hybrid /\ pc = "STRUCTURAL_ATTEMPTED" /\ AstParse(doc.page_content).ok)
           => OneChunkPerFittingNode(ast_chunks, doc)
    /\ (strategy = "ast" /\ pc = "DONE") =>
           \A i \in 1..Len(documents) :
               (EndsWithPy(SourceOf(documents[i]))
                    /\ AstParse(documents[i].page_content).ok)
                   => OneChunkPerFittingNode(ChunksOfFile(i), documents[i])

\* the structural splitter has returned the chunk of a class and the chunk
\* of a method inside it, the lines of the method within those of the
\* class
C25_Witness ==
    /\ Hybrid /\ pc = "STRUCTURAL_ATTEMPTED"
    /\ \E k, l \in 1..Len(ast_chunks) :
           /\ ast_chunks[k].metadata["node_type"] = "class"
           /\ ast_chunks[l].metadata["node_type"] = "function"
           /\ ast_chunks[k].metadata["start_line"] < ast_chunks[l].metadata["start_line"]
           /\ ast_chunks[l].metadata["end_line"] <= ast_chunks[k].metadata["end_line"]

----------------------------------------------------------------------------
(* C26 *)

\* the cell_type of a cell, as a token ("" when it has none)
CellTypeOf(cell) ==
    LET t == PairsGet(cell.f, "cell_type", JStr(<<>>))
    IN IF t.t = "str" /\ Len(t.s) = 1 THEN t.s[1] ELSE ""

\* the source text of a well-formed cell: the string, or the lines joined
SourceTextOf(cell) ==
    LET source == PairsGet(cell.f, "source", JList(<<>>))
    IN IF source.t = "str" THEN source.s
       ELSE Concat([i \in 1..Len(source.items) |-> source.items[i].s])

\* the labeled block of a markdown cell and the labeled fenced block of a
\* code cell
LabeledBlock(cell) ==
    IF CellTypeOf(cell) = "markdown"
    THEN <<"#", SP, "Markdown", SP, "Cell", NL>> \o SourceTextOf(cell) \o <<NL>>
    ELSE <<"#", SP, "Code", SP, "Cell", NL, FENCE, "python", NL>>
             \o SourceTextOf(cell) \o <<NL, FENCE, NL>>

\* the text the claim expects for a well-formed notebook: the blocks of
\* its markdown and code cells in cell order, one line break between them
ExpectedNotebookText(v) ==
    LET cells == PairsGet(v.f, "cells", JList(<<>>)).items
        kept  == SelectSeq(cells, LAMBDA c : CellTypeOf(c) \in {"markdown", "code"})
    IN JoinWith([k \in 1..Len(kept) |-> LabeledBlock(kept[k])], <<NL>>)

\* C26: for a well-formed notebook parse_notebook gives exactly one
\* labeled block per markdown cell and one labeled fenced code block per
\* code cell, in the order of the cells, with the source text of the cell
\* (the string, or the list of lines joined) inside; cells of another
\* type, outputs and metadata contribute nothing.
C26_OneBlockPerCellInOrder ==
    (AtNotebook /\ pc = "NORMALIZED"
         /\ WellFormedNotebook(JsonLoads(documents[idx].page_content)))
        => doc.page_content
               = ExpectedNotebookText(JsonLoads(documents[idx].page_content))

\* a notebook with a markdown cell, then a code cell whose source is a
\* list of lines and that has outputs, then a raw cell, and with metadata,
\* has been normalized: the text has the two blocks, markdown first
C26_Witness ==
    /\ AtNotebook /\ pc = "NORMALIZED"
    /\ JsonLoads(documents[idx].page_content)
           = JObj(<< <<"cells", JList(<<CellMarkdown, CellCode, CellRaw>>)>>,
                     <<"metadata", JObj(<<>>)>> >>)
    /\ doc.page_content
           = <<"#", SP, "Markdown", SP, "Cell", NL, "t", NL, NL,
               "#", SP, "Code", SP, "Cell", NL, FENCE, "python", NL,
               "x", NL, "y", NL, FENCE, NL>>

----------------------------------------------------------------------------
(* GitHubLoader.load: branch resolution, tree, parallel downloads          *)

\* Bound: a repository tree has at most MaxTree items.
MaxTree == 4

\* ThreadPoolExecutor(max_workers=10)
max_workers == 10

REPO == "o/r"

\* self.file_extensions and self.max_file_size of a loader built with the
\* defaults
file_extensions ==
    {".py", ".js", ".md", ".yaml", ".yml", ".json", ".toml", ".sql", ".dockerfile",
     ".css", ".ipynb"}

max_file_size == 1048576

\* the items a tree answer can hold, in the order the answer lists them
TreeCatalogue ==
    << [path |-> "a.py",    type |-> "blob", sha |-> "s1", size |-> 120],
       [path |-> "b.py",    type |-> "blob", sha |-> "s2", size |-> 40],
       [path |-> "d",       type |-> "tree", sha |-> "s3", size |-> 0],
       [path |-> "d/i.png", type |-> "blob", sha |-> "s4", size |-> 900],
       [path |-> "n.ipynb", type |-> "blob", sha |-> "s5", size |-> 2000000],
       [path |-> "r.md",    type |-> "blob", sha |-> "s6", size |-> 60] >>

RECURSIVE SubSeqsOf(_, _)
\* the sub-lists of s with at most n items
SubSeqsOf(s, n) ==
    IF s = <<>> \/ n = 0 THEN {<<>>}
    ELSE SubSeqsOf(Tail(s), n)
         \cup {<<Head(s)>> \o t : t \in SubSeqsOf(Tail(s), n - 1)}

Trees == SubSeqsOf(TreeCatalogue, MaxTree)

\* os.path.splitext(path)[1].lower() and os.path.basename(path)
PathExt(path) == IF path = "d/i.png" THEN ".png" ELSE IF path = "d" THEN "" ELSE Ext(path)

Basename(path) == IF path = "d/i.png" THEN "i.png" ELSE path

\* the decoded content the contents endpoint serves for a path
ContentOf(path) ==
    CASE path = "a.py" -> PyMath
      [] path = "b.py" -> PyBroken
      [] OTHER         -> MdReadme

_should_load_file(path, size) ==
    IF PathExt(path) \notin file_extensions THEN FALSE
    ELSE IF size > max_file_size THEN FALSE
    ELSE TRUE

\* l is the loader (self)
_build_metadata(l, item, placeholder) ==
    [source |-> item.path,
     repo   |-> REPO,
     branch |-> l.branch,
     sha    |-> item.sha,
     size   |-> item.size,
     type   |-> IF placeholder THEN "placeholder" ELSE "code",
     url    |-> <<"https://github.com/", REPO, "/blob/", l.branch, "/", item.path>>]

\* the ref of the contents request of _load_file_content
ContentRef(l) == l.branch

\* Python's None, and the truth value of "if doc:"
None == [none |-> TRUE]

Truthy(result) == "none" \notin DOMAIN result

\* what a worker's load_single_file returns; status is the outcome of its
\* request: a status code, or "Exception"
_load_file_content(l, item, status) ==
    IF status # "200" THEN None
    ELSE Document(ContentOf(item.path), _build_metadata(l, item, FALSE))

\* the trees endpoint for a branch: 200 when the repository has the branch,
\* 404 when it has not, or a server-side failure
TreeStatuses(github, candidate) ==
    (IF candidate \in github.branches THEN {"200"} ELSE {"404"}) \cup {"500"}

\* the contents endpoint for a ref; a request may fail on its own
ContentStatuses(github, ref) ==
    IF ref \in github.branches THEN {"200", "500", "Exception"} ELSE {"404"}

\* _resolve_branch, status giving the answer for each candidate
_resolve_branch(l, status) ==
    LET first == l.branch
    IN  IF status[1] = "200" THEN [branch |-> first, raised |-> ""]
        ELSE IF status[1] # "404" THEN [branch |-> "", raised |-> "RuntimeError"]
        ELSE IF status[2] = "200" THEN [branch |-> "master", raised |-> ""]
        ELSE [branch |-> "", raised |-> "RuntimeError"]

RECURSIVE FilterTree(_, _, _, _)
\* step 3 of load: the blobs to download and the placeholders of the others
FilterTree(l, tree_items, files_to_load, placeholders) ==
    IF tree_items = <<>>
    THEN [files_to_load |-> files_to_load, placeholders |-> placeholders]
    ELSE LET item == Head(tree_items)
         IN  IF item.type # "blob"
             THEN FilterTree(l, Tail(tree_items), files_to_load, placeholders)
             ELSE IF _should_load_file(item.path, item.size)
             THEN FilterTree(l, Tail(tree_items), Append(files_to_load, item),
                             placeholders)
             ELSE FilterTree(l, Tail(tree_items), files_to_load,
                             Append(placeholders,
                                    Document(<<"[BINARY OR SKIPPED FILE] ",
                                               Basename(item.path)>>,
                                             _build_metadata(l, item, TRUE))))

\* variant: the main thread counts every finished download, failed or not
AfterCompletedCountingFailures(l, i) ==
    LET result == l.futures[i].result
    IN  IF Truthy(result)
        THEN [l EXCEPT !.futures[i].state = "yielded",
                       !.documents = Append(@, result),
                       !.files_processed = @ + 1,
                       !.calls = IF l.progress_callback
                                 THEN Append(@, <<l.files_processed + 1, l.total_files>>)
                                 ELSE @]
        ELSE [l EXCEPT !.futures[i].state = "yielded",
                       !.files_processed = @ + 1]

\* the body of "for future in as_completed(...)" for the future of file i
AfterCompleted(l, i) ==
    LET result == l.futures[i].result
    IN  IF Truthy(result)
        THEN [l EXCEPT !.futures[i].state = "yielded",
                       !.documents = Append(@, result),
                       !.files_processed = @ + 1,
                       !.calls = IF l.progress_callback
                                 THEN Append(@, <<l.files_processed + 1, l.total_files>>)
                                 ELSE @]
        ELSE [l EXCEPT !.futures[i].state = "yielded"]

InitLoad ==
    /\ documents = <<>>
    /\ chunk_size = 22
    /\ chunk_overlap = 0
    /\ strategy = "hybrid"
    /\ pc = "load_start"
    /\ idx = 0
    /\ doc = NoDoc
    /\ ast_chunks = <<>>
    /\ all_chunks = <<>>
    /\ import_map = <<>>
    /\ ast_success = 0
    /\ ast_failed = 0
    /\ fallback_used = 0
    /\ route = <<>>
    /\ raised = ""
    /\ \E branch \in {"main", "dev"}, branches \in SUBSET {"main", "master"},
          tree \in Trees, progress_callback \in BOOLEAN :
          loader = [branch            |-> branch,
                    progress_callback |-> progress_callback,
                    github            |-> [branches |-> branches, tree |-> tree],
                    resolved          |-> "",
                    tree_ref          |-> "",
                    tree_items        |-> <<>>,
                    files_to_load     |-> <<>>,
                    placeholders      |-> <<>>,
                    total_files       |-> 0,
                    futures           |-> <<>>,
                    requests          |-> {},
                    documents         |-> <<>>,
                    files_processed   |-> 0,
                    calls             |-> <<>>]

pipeline == <<params, idx, doc, ast_chunks, all_chunks, import_map, ast_success,
              ast_failed, fallback_used, route>>

\* step 1: branch = self._resolve_branch()
ResolveBranch ==
    /\ pc = "load_start"
    /\ \E s1 \in TreeStatuses(loader.github, loader.branch),
          s2 \in TreeStatuses(loader.github, "master") :
          LET r == _resolve_branch(loader, <<s1, s2>>)
          IN  IF r.raised # ""
              THEN /\ pc' = "load_raised"
                   /\ raised' = r.raised
                   /\ UNCHANGED loader
              ELSE /\ pc' = "resolved"
                   /\ loader' = [loader EXCEPT !.resolved = r.branch]
                   /\ UNCHANGED raised
    /\ UNCHANGED pipeline

\* steps 2 to 4 up to the submission of the downloads
FetchTreeAndSubmit ==
    /\ pc = "resolved"
    /\ \E status \in TreeStatuses(loader.github, loader.resolved) :
          IF status # "200"
          THEN /\ pc' = "load_raised"
               /\ raised' = "RuntimeError"
               /\ UNCHANGED loader
          ELSE LET tree_items == loader.github.tree
                   f == FilterTree(loader, tree_items, <<>>, <<>>)
               IN  /\ pc' = "as_completed"
                   /\ loader' = [loader EXCEPT
                          !.tree_ref = loader.resolved,
                          !.tree_items = tree_items,
                          !.files_to_load = f.files_to_load,
                          !.placeholders = f.placeholders,
                          !.total_files = Len(f.files_to_load),
                          !.futures = [i \in 1..Len(f.files_to_load) |->
                                          [state |-> "pending", status |-> "",
                                           result |-> None]]]
                   /\ UNCHANGED raised
    /\ UNCHANGED pipeline

Running(l) == {i \in 1..Len(l.futures) : l.futures[i].state = "running"}

\* a worker thread takes the download of file i and sends its request
WorkerStart(i) ==
    /\ pc = "as_completed"
    /\ loader.futures[i].state = "pending"
    /\ Cardinality(Running(loader)) < max_workers
    /\ loader' = [loader EXCEPT
           !.futures[i].state = "running",
           !.requests = @ \cup {[path |-> loader.files_to_load[i].path,
                                 ref |-> ContentRef(loader)]}]
    /\ UNCHANGED <<pipeline, pc, raised>>

\* the worker's load_single_file returns
WorkerFinish(i) ==
    /\ pc = "as_completed"
    /\ loader.futures[i].state = "running"
    /\ \E status \in ContentStatuses(loader.github, ContentRef(loader)) :
          loader' = [loader EXCEPT
              !.futures[i] = [state |-> "finished", status |-> status,
                              result |-> _load_file_content(loader,
                                             loader.files_to_load[i], status)]]
    /\ UNCHANGED <<pipeline, pc, raised>>

\* the main thread is handed a finished future by as_completed
Completed(i) ==
    /\ pc = "as_completed"
    /\ loader.futures[i].state = "finished"
    /\ loader' = AfterCompleted(loader, i)
    /\ UNCHANGED <<pipeline, pc, raised>>

\* all futures handled: the placeholders are added and load returns
ReturnDocuments ==
    /\ pc = "as_completed"
    /\ \A i \in 1..Len(loader.futures) : loader.futures[i].state = "yielded"
    /\ loader' = [loader EXCEPT !.documents = @ \o loader.placeholders]
    /\ pc' = "load_done"
    /\ UNCHANGED <<pipeline, raised>>

NextLoad ==
    \/ ResolveBranch
    \/ FetchTreeAndSubmit
    \/ \E i \in 1..MaxTree : i <= Len(loader.futures) /\ WorkerStart(i)
    \/ \E i \in 1..MaxTree : i <= Len(loader.futures) /\ WorkerFinish(i)
    \/ \E i \in 1..MaxTree : i <= Len(loader.futures) /\ Completed(i)
    \/ ReturnDocuments

SpecLoad == InitLoad /\ [][NextLoad]_vars

\* C27: when the requested branch is missing and master exists, load resolves
\* to master, and the tree, every contents request and the branch and url of
\* every document's metadata name the resolved branch, so that no download
\* is answered "not found" and the files are loaded.
FallbackCase ==
    loader.branch \notin loader.github.branches /\ "master" \in loader.github.branches

C27_FallbackUsesResolvedBranch ==
    (pc \in {"as_completed", "load_done"} /\ FallbackCase) =>
        /\ loader.resolved = "master"
        /\ loader.tree_ref = loader.resolved
        /\ \A r \in loader.requests : r.ref = loader.resolved
        /\ \A i \in 1..Len(loader.futures) : loader.futures[i].status # "404"
        /\ \A i \in 1..Len(loader.documents) :
              /\ loader.documents[i].metadata["branch"] = loader.resolved
              /\ loader.documents[i].metadata["url"][4] = loader.resolved
        /\ \A i \in 1..Len(loader.placeholders) :
              loader.placeholders[i].metadata["branch"] = loader.resolved

\* what does hold in the fallback case: the tree is master's, every contents
\* request names the requested branch, and load returns placeholders only
FallbackLoadsNothing ==
    (pc \in {"as_completed", "load_done"} /\ FallbackCase) =>
        /\ loader.resolved = "master"
        /\ loader.tree_ref = "master"
        /\ \A r \in loader.requests : r.ref = loader.branch
        /\ loader.files_processed = 0
        /\ pc = "load_done" => loader.documents = loader.placeholders

----------------------------------------------------------------------------
(* C30: the result of load under every completion order                    *)

\* the downloads whose request was answered 200, and those of them the main
\* thread has been handed
Succeeded == {i \in 1..Len(loader.futures) : loader.futures[i].status = "200"}

Handled == {i \in Succeeded : loader.futures[i].state = "yielded"}

\* the blobs of the tree that are not downloaded
SkippedBlobs ==
    {k \in 1..Len(loader.tree_items) :
        /\ loader.tree_items[k].type = "blob"
        /\ ~_should_load_file(loader.tree_items[k].path, loader.tree_items[k].size)}

\* the documents of the file downloads, before the placeholders are added
FileDocuments == SubSeq(loader.documents, 1, loader.files_processed)

PathsOf(docs) == {docs[k].metadata["source"] : k \in 1..Len(docs)}

\* C30: whatever order the worker threads start and finish in, the result
\* of load holds exactly one document per file whose download succeeded,
\* followed by exactly one placeholder per skipped blob; a failed download
\* adds nothing and stops nothing; and progress_callback has been called
\* once per successful file, with current = 1, 2, ..., n and n <= total.
C30_ResultIndependentOfCompletionOrder ==
    pc \in {"as_completed", "load_done"} =>
        /\ raised = ""
        /\ loader.files_processed = Cardinality(Handled)
        /\ Len(FileDocuments) = Cardinality(Handled)
        /\ PathsOf(FileDocuments) = {loader.files_to_load[i].path : i \in Handled}
        /\ \A k \in 1..Len(FileDocuments) : FileDocuments[k].metadata["type"] = "code"
        /\ Len(loader.placeholders) = Cardinality(SkippedBlobs)
        /\ PathsOf(loader.placeholders) = {loader.tree_items[k].path : k \in SkippedBlobs}
        /\ loader.files_processed <= loader.total_files
        /\ loader.calls = IF loader.progress_callback
                          THEN [k \in 1..loader.files_processed |->
                                   <<k, loader.total_files>>]
                          ELSE <<>>
        /\ pc = "as_completed" => loader.documents = FileDocuments
        /\ pc = "load_done" =>
              /\ Handled = Succeeded
              /\ Len(loader.futures) = loader.total_files
              /\ loader.documents = FileDocuments \o loader.placeholders

\* load has returned: b.py finished before a.py, the download of r.md
\* failed, and d/i.png was skipped
C30_Witness ==
    /\ pc = "load_done"
    /\ loader.progress_callback
    /\ loader.total_files = 3
    /\ Len(loader.documents) = 3
    /\ loader.documents[1].metadata["source"] = "b.py"
    /\ loader.documents[2].metadata["source"] = "a.py"
    /\ loader.documents[3].metadata["type"] = "placeholder"
    /\ loader.futures[3].status = "500"
    /\ loader.calls = << <<1, 3>>, <<2, 3>> >>

----------------------------------------------------------------------------
(* GitHubLoader._make_request_with_retry                                   *)

\* Bound: max_retries is at most MaxRetries (every caller uses 3).
MaxRetries == 3

\* what one requests.get can come to: a response (status_code, the value of
\* its X-RateLimit-Remaining header or "absent", and X-RateLimit-Reset less
\* time.time()), or one of the exceptions the function catches
Response(status_code, remaining, reset_in) ==
    [kind |-> "response", status_code |-> status_code, remaining |-> remaining,
     reset_in |-> reset_in]

Raises(exception) ==
    [kind |-> exception, status_code |-> 0, remaining |-> "absent", reset_in |-> 0]

Answers ==
    {Response(200, "absent", 0), Response(200, "4999", 0), Response(404, "absent", 0),
     Response(403, "absent", 0), Response(403, "12", 0),
     Response(403, "0", 0), Response(403, "0", 90),
     Raises("ConnectionError"), Raises("Timeout")}

\* resp.status_code == 403 and "X-RateLimit-Remaining" in resp.headers and
\* remaining == "0"
RateLimited(answer) ==
    /\ answer.kind = "response"
    /\ answer.status_code = 403
    /\ answer.remaining # "absent"
    /\ answer.remaining = "0"

Max(a, b) == IF a >= b THEN a ELSE b

\* variant: a connection error on the last attempt is waited out like the
\* others instead of being raised again
AfterAttemptNeverReraises(l, answer) ==
    LET m == [l EXCEPT !.attempt = @ + 1, !.log = Append(@, answer)]
    IN  IF answer.kind = "response"
        THEN IF RateLimited(answer)
             THEN [loader |-> [m EXCEPT !.slept = Append(@, Max(answer.reset_in, 60))],
                   pc |-> "retry_loop", raised |-> ""]
             ELSE [loader |-> [m EXCEPT !.resp = answer],
                   pc |-> "retry_returned", raised |-> ""]
        ELSE [loader |-> [m EXCEPT !.slept = Append(@, 2 ^ l.attempt)],
              pc |-> "retry_loop", raised |-> ""]

\* one iteration of "for attempt in range(max_retries)"; l.attempt is the
\* value of the loop variable
AfterAttempt(l, answer) ==
    LET m == [l EXCEPT !.attempt = @ + 1, !.log = Append(@, answer)]
    IN  IF answer.kind = "response"
        THEN IF RateLimited(answer)
             THEN [loader |-> [m EXCEPT !.slept = Append(@, Max(answer.reset_in, 60))],
                   pc |-> "retry_loop", raised |-> ""]
             ELSE [loader |-> [m EXCEPT !.resp = answer],
                   pc |-> "retry_returned", raised |-> ""]
        ELSE IF l.attempt < l.max_retries - 1
             THEN [loader |-> [m EXCEPT !.slept = Append(@, 2 ^ l.attempt)],
                   pc |-> "retry_loop", raised |-> ""]
             ELSE [loader |-> m, pc |-> "retry_raised", raised |-> answer.kind]

InitRetry ==
    /\ documents = <<>>
    /\ chunk_size = 22
    /\ chunk_overlap = 0
    /\ strategy = "hybrid"
    /\ pc = "retry_loop"
    /\ idx = 0
    /\ doc = NoDoc
    /\ ast_chunks = <<>>
    /\ all_chunks = <<>>
    /\ import_map = <<>>
    /\ ast_success = 0
    /\ ast_failed = 0
    /\ fallback_used = 0
    /\ route = <<>>
    /\ raised = ""
    /\ \E max_retries \in 1..MaxRetries :
          loader = [max_retries |-> max_retries,
                    attempt     |-> 0,
                    log         |-> <<>>,
                    slept       |-> <<>>,
                    resp        |-> Raises("none")]

\* the loop body runs for the next attempt
Attempt ==
    /\ pc = "retry_loop"
    /\ loader.attempt < loader.max_retries
    /\ \E answer \in Answers :
          LET a == AfterAttempt(loader, answer)
          IN  /\ loader' = a.loader
              /\ pc' = a.pc
              /\ raised' = a.raised
    /\ UNCHANGED pipeline

\* the loop ran out: raise RuntimeError("Request failed after all retries")
RetriesExhausted ==
    /\ pc = "retry_loop"
    /\ loader.attempt >= loader.max_retries
    /\ pc' = "retry_raised"
    /\ raised' = "RuntimeError"
    /\ UNCHANGED <<pipeline, loader>>

NextRetry == Attempt \/ RetriesExhausted

SpecRetry == InitRetry /\ [][NextRetry]_vars

\* the function is not suspended for ever: time.sleep and requests.get with
\* timeout=60 return
FairSpecRetry == SpecRetry /\ WF_vars(NextRetry)

IsConnectionError(answer) == answer.kind \in {"ConnectionError", "Timeout"}

Last(s) == s[Len(s)]

\* the requests before the last one were all waited out
EarlierAttemptsRetried ==
    \A k \in 1..(Len(loader.log) - 1) :
        RateLimited(loader.log[k]) \/ IsConnectionError(loader.log[k])

ReturnsResponse ==
    /\ pc = "retry_returned"
    /\ raised = ""
    /\ loader.log # <<>>
    /\ loader.resp = Last(loader.log)
    /\ loader.resp.kind = "response"
    /\ ~RateLimited(loader.resp)

ReraisesLastConnectionError ==
    /\ pc = "retry_raised"
    /\ Len(loader.log) = loader.max_retries
    /\ IsConnectionError(Last(loader.log))
    /\ raised = Last(loader.log).kind

RuntimeErrorAfterAllRateLimited ==
    /\ pc = "retry_raised"
    /\ raised = "RuntimeError"
    /\ Len(loader.log) = loader.max_retries
    /\ \A k \in 1..Len(loader.log) : RateLimited(loader.log[k])

RuntimeErrorAfterLastRateLimited ==
    /\ pc = "retry_raised"
    /\ raised = "RuntimeError"
    /\ Len(loader.log) = loader.max_retries
    /\ RateLimited(Last(loader.log))

\* C28: the function ends after at most max_retries requests, and it ends
\* in one of three ways: it returns a response that is not a rate-limit
\* answer, it raises the connection error of the last attempt again, or it
\* raises RuntimeError after every attempt was rate-limited.
C28_EndsInOneOfThreeAllRateLimited ==
    /\ [](Len(loader.log) <= loader.max_retries)
    /\ <>(pc # "retry_loop")
    /\ [](pc # "retry_loop" =>
            /\ EarlierAttemptsRetried
            /\ \/ ReturnsResponse
               \/ ReraisesLastConnectionError
               \/ RuntimeErrorAfterAllRateLimited)

\* C28, amended: RuntimeError is raised when the last attempt was
\* rate-limited, whatever mix of rate limits and connection errors the
\* earlier attempts met.
C28_EndsInOneOfThreeLastRateLimited ==
    /\ [](Len(loader.log) <= loader.max_retries)
    /\ <>(pc # "retry_loop")
    /\ [](pc # "retry_loop" =>
            /\ EarlierAttemptsRetried
            /\ \/ ReturnsResponse
               \/ ReraisesLastConnectionError
               \/ RuntimeErrorAfterLastRateLimited)

\* RuntimeError after a connection error, a timeout and a rate limit
C28_Witness ==
    /\ pc = "retry_raised"
    /\ raised = "RuntimeError"
    /\ Len(loader.log) = 3
    /\ loader.log[1].kind = "ConnectionError"
    /\ loader.log[2].kind = "Timeout"
    /\ RateLimited(loader.log[3])
    /\ loader.slept = <<1, 2, 90>>

----------------------------------------------------------------------------
(* C29: the diagnostic counters of _hybrid_split                           *)

\* the files handled so far that are Python by extension and went to the
\* generic splitter
PythonFallbacks ==
    {i \in Processed : route[i] = "FALLBACK" /\ Ext(SourceOf(documents[i])) = ".py"}

\* an iteration of the loop over the files ends with this step
EndsIteration == Len(route') = Len(route) + 1

\* C29: in _hybrid_split, after any number of files, ast_success +
\* fallback_used is the number of files handled (all input files when the
\* loop is over), ast_failed <= fallback_used, ast_failed is the number of
\* Python files that fell back, and the iteration of a file increments
\* exactly one of ast_success and fallback_used, by one.
C29_CountersAccountForEveryFile ==
    /\ [](Hybrid =>
            /\ ast_success + fallback_used = Len(route)
            /\ ast_failed <= fallback_used
            /\ ast_failed = Cardinality(PythonFallbacks)
            /\ ast_success = Cardinality({i \in Processed : route[i] = "STRUCTURAL_OK"})
            /\ pc = "DONE" => ast_success + fallback_used = Len(documents))
    /\ [][(Hybrid /\ EndsIteration) =>
            \/ ast_success' = ast_success + 1 /\ fallback_used' = fallback_used
            \/ ast_success' = ast_success /\ fallback_used' = fallback_used + 1]_vars
    /\ [][(Hybrid /\ ~EndsIteration) =>
            UNCHANGED <<ast_success, ast_failed, fallback_used>>]_vars

\* a run over a Python file that was split structurally, and a Python file
\* that fell back
C29_Witness ==
    /\ Hybrid /\ pc = "DONE"
    /\ Len(documents) = 2
    /\ route = <<"STRUCTURAL_OK", "FALLBACK">>
    /\ Ext(SourceOf(documents[2])) = ".py"
    /\ ast_success = 1 /\ ast_failed = 1 /\ fallback_used = 1

====
